---- MODULE Spec2Model ----
(***************************************************************************)
(* The nested-transaction / savepoint emulation and the deferred rollback  *)
(* of sqlx-mssql (src/sqlx-mssql/src/transaction.rs), together with the    *)
(* command paths of the connection that resolve (or do not resolve) a      *)
(* pending rollback before they talk to the server.                        *)
(*                                                                         *)
(* One connection is modelled.  `transaction_depth` and `pending_rollback` *)
(* are the two fields of MssqlConnectionInner the protocol uses; `server`  *)
(* is the session's state on the SQL Server side (open transaction count,  *)
(* savepoints, committed and current data); `calls` is the history of the  *)
(* API calls made so far, each with the state it started in, the commands  *)
(* it put on the wire and its result.                                      *)
(*                                                                         *)
(* The advisory locks (src/sqlx-mssql/src/advisory_lock.rs) are modelled   *)
(* with a second session: `applock` is the server's lock manager for one   *)
(* resource name, shared by the sessions; session 1 is the connection      *)
(* above, session 2 a second connection that only uses the lock.           *)
(***************************************************************************)
EXTENDS Integers, Sequences, FiniteSets, TLC

VARIABLES
    transaction_depth,   \* MssqlConnectionInner.transaction_depth
    pending_rollback,    \* MssqlConnectionInner.pending_rollback
    server,              \* the server's view of this session
    calls,               \* history: one record per API call, the last
                         \*          `window` calls being kept
    ncalls,              \* history: the number of API calls made
    window,              \* how many calls the history keeps
    levels,              \* history: work done at each open transaction level
    kept,                \* history: work whose level chain ended in commit
    failed,              \* history: some call has returned an error
    armed,               \* history: depth left by the last start_rollback
    armedFirst,          \* history: depth left by the start_rollback that
                         \*          turned the flag from false to true
    applock,             \* the server's application lock on the resource:
                         \*          per session, the mode and the count held
    holds,               \* history: per session, the mode and the count the
                         \*          results of its lock calls tell it holds
    guards               \* per session, whether the session is open and the
                         \*          MssqlAdvisoryLockGuard that owns its
                         \*          connection handle, if one does

vars == <<transaction_depth, pending_rollback, server, calls, ncalls, window,
          levels, kept, failed, armed, armedFirst, applock, holds, guards>>

(***************************************************************************)
(* Bounds of the model.                                                    *)
(***************************************************************************)
\* number of API calls in a run of Spec (all operations, with failures)
MaxCalls == 6
\* number of API calls in a run of SpecNested (begin/commit/rollback/drop/
\* execute, none failing)
MaxNested == 7
\* number of lock calls in a run of SpecLocks and of SpecStatus
MaxLockCalls == 5
\* how many times a session acquires the lock before it releases it
MaxHeld == 2
\* the calls of a run of the migrator's specification
MaxMigrate == 3
\* the guard calls of a run in which statuses and outcomes are arbitrary
MaxGuardCalls == 3
\* the calls of a run in which lock batches fail or follow a deferred rollback
MaxBatches == 4
\* the conversions of a run of SpecI8
MaxConversions == 2

\* "no depth recorded" for the history variables armed and armedFirst
NoDepth == 0 - 1

(***************************************************************************)
(* Commands on the wire.  A savepoint command carries the number N that    *)
(* format!("... _sqlx_savepoint_{}", N) puts into the name; every other    *)
(* command carries 0.                                                      *)
(***************************************************************************)
Cmd(k, n) == [k |-> k, n |-> n]

BEGIN_TRANSACTION == Cmd("BEGIN TRANSACTION", 0)

SaveTransaction(depth) == Cmd("SAVE TRANSACTION", depth)

COMMIT == Cmd("COMMIT", 0)

ROLLBACK == Cmd("ROLLBACK", 0)

RollbackTransaction(n) == Cmd("ROLLBACK TRANSACTION", n)

\* the rollback command that undoes everything above depth d
RollbackFor(d) == IF d = 0 THEN ROLLBACK ELSE RollbackTransaction(d)

\* the caller's own BEGIN text given to begin_with
ExplicitBegin == Cmd("EXPLICIT BEGIN", 0)

\* a data-changing statement; n identifies the work it does
Statement(n) == Cmd("STATEMENT", n)

SELECT_1 == Cmd("SELECT 1", 0)

INSERT_BULK == Cmd("INSERT BULK", 0)

DescribeFirstResultSet == Cmd("EXEC sp_describe_first_result_set", 0)

DescribeUndeclaredParameters == Cmd("EXEC sp_describe_undeclared_parameters", 0)

(***************************************************************************)
(* The server side of the session.                                         *)
(*   tc    : @@TRANCOUNT                                                   *)
(*   base  : the committed data                                            *)
(*   cur   : the data the session sees (base plus uncommitted work)        *)
(*   saves : the savepoints of the open transaction, oldest first, each    *)
(*           with its name's number and the data at the time it was set    *)
(***************************************************************************)
ServerInit == [tc |-> 0, base |-> {}, cur |-> {}, saves |-> <<>>]

HasSavepoint(s, n) == \E i \in 1..Len(s.saves) : s.saves[i].n = n

\* the most recent savepoint of that name
LastSavepoint(s, n) ==
    CHOOSE i \in 1..Len(s.saves) :
        /\ s.saves[i].n = n
        /\ \A j \in (i+1)..Len(s.saves) : s.saves[j].n # n

\* whether the server executes the command or answers with an error
ServerAccepts(s, c) ==
    CASE c.k = "SAVE TRANSACTION"     -> s.tc > 0
      [] c.k = "COMMIT"               -> s.tc > 0
      [] c.k = "ROLLBACK"             -> s.tc > 0
      [] c.k = "ROLLBACK TRANSACTION" -> s.tc > 0 /\ HasSavepoint(s, c.n)
      [] OTHER                        -> TRUE

\* the effect of an accepted command
ServerApply(s, c) ==
    CASE c.k \in {"BEGIN TRANSACTION", "EXPLICIT BEGIN"} ->
            [s EXCEPT !.tc = @ + 1]
      [] c.k = "SAVE TRANSACTION" ->
            [s EXCEPT !.saves = Append(@, [n |-> c.n, data |-> s.cur])]
      [] c.k = "COMMIT" ->
            IF s.tc = 1
            THEN [s EXCEPT !.tc = 0, !.base = s.cur, !.saves = <<>>]
            ELSE [s EXCEPT !.tc = @ - 1]
      [] c.k = "ROLLBACK" ->
            [s EXCEPT !.tc = 0, !.cur = s.base, !.saves = <<>>]
      [] c.k = "ROLLBACK TRANSACTION" ->
            LET i == LastSavepoint(s, c.n)
            IN  [s EXCEPT !.cur = s.saves[i].data,
                          !.saves = SubSeq(@, 1, i)]
      [] c.k = "STATEMENT" ->
            IF s.tc = 0
            THEN [s EXCEPT !.cur = @ \cup {c.n}, !.base = @ \cup {c.n}]
            ELSE [s EXCEPT !.cur = @ \cup {c.n}]
      [] OTHER -> s

(***************************************************************************)
(* The server's application lock on one resource name (sp_getapplock /     *)
(* sp_releaseapplock with @LockOwner = 'Session').  A session holds the    *)
(* lock in one mode, as many times as it was granted; a session asks for   *)
(* the lock again only in the mode it holds it in.                         *)
(***************************************************************************)
Sessions == {1, 2}

NotHeld == [mode |-> "", n |-> 0]

\* MssqlAdvisoryLockMode: Shared is compatible with Shared and Update,
\* Update with Shared only, Exclusive with no mode
Compatible(a, b) ==
    \/ a = "Shared" /\ b \in {"Shared", "Update"}
    \/ a = "Update" /\ b = "Shared"

\* the modes held on the resource by the sessions other than s
HeldByOthers(locks, s) ==
    {locks[t].mode : t \in {u \in Sessions \ {s} : locks[u].n > 0}}

\* the lock manager can grant `mode` to session s at once
Grantable(locks, s, mode) ==
    \A held \in HeldByOthers(locks, s) : Compatible(mode, held)

\* the integers a procedure's status is drawn from when the server may
\* answer anything: the documented codes and some that are not
StatusCodes == {0 - 1000, 0 - 999, 0 - 4, 0 - 3, 0 - 2, 0 - 1, 0, 1, 2}

\* The statuses sp_getapplock can return to session s.  A lock that can be
\* granted is granted with 0 (with 1 when the call waited, which only a
\* call with a wait does); one that cannot is refused with -1 when the
\* call does not wait, and a call that waits does not return.  With
\* `anyStatus` the server may answer any code, a non-negative one only when
\* it grants the lock.
sp_getapplock(locks, s, mode, timeout, anyStatus) ==
    IF anyStatus
    THEN IF Grantable(locks, s, mode) THEN StatusCodes
         ELSE {c \in StatusCodes : c < 0}
    ELSE IF Grantable(locks, s, mode)
         THEN IF timeout = 0 THEN {0} ELSE {0, 1}
         ELSE IF timeout = 0 THEN {0 - 1} ELSE {}

\* The statuses sp_releaseapplock can return to session s: 0 when the
\* session holds the lock, -999 when it does not; with `anyStatus` any
\* code, 0 only when the lock is held.
sp_releaseapplock(locks, s, anyStatus) ==
    IF anyStatus
    THEN IF locks[s].n > 0 THEN StatusCodes ELSE StatusCodes \ {0}
    ELSE IF locks[s].n > 0 THEN {0} ELSE {0 - 999}

\* one more grant of `mode` to session s / one grant given back
Granted(locks, s, mode) ==
    [locks EXCEPT ![s] = [mode |-> mode, n |-> @.n + 1]]

Released(locks, s) ==
    [locks EXCEPT ![s] = IF @.n > 1 THEN [@ EXCEPT !.n = @ - 1] ELSE NotHeld]

\* a session as establish leaves it: open, its connection handle with the
\* caller and owned by no guard; `abandoned` (history) says that a guard of
\* the session was dropped with the handle still in it; `waiting` holds the
\* lock of an acquire that was sent and has not returned
NoGuard == [open |-> TRUE, guard |-> <<>>, abandoned |-> FALSE,
            waiting |-> <<>>]

(***************************************************************************)
(* The connection as the driver's functions see it: the two fields, the    *)
(* server behind the client, the commands put on the wire by the call in   *)
(* progress (`out`) and the call's result so far: `res` is "Ok" or the     *)
(* kind of the error, `val` the value inside Ok(..), `msg` what the text   *)
(* of a protocol error made by the lock functions carries.                 *)
(***************************************************************************)
NoMessage == [proc |-> "", resource |-> "", status |-> 0, reason |-> ""]

Conn ==
    [depth   |-> transaction_depth,
     pending |-> pending_rollback,
     server  |-> server,
     out     |-> <<>>,
     res     |-> "Ok",
     val     |-> "()",
     msg     |-> NoMessage]

\* What one round trip of the tiberius client can end in: success, an error
\* token from the server, an I/O error, any other client error.
Outcomes == {"Ok", "Server", "Io", "Other"}

\* error.rs: Server -> Error::Database, Io -> Error::Io, other -> Error::Protocol
tiberius_err(e) ==
    CASE e = "Server" -> "Database"
      [] e = "Io"     -> "Io"
      [] OTHER        -> "Protocol"

\* client.simple_query(cmd) / Query::query: one command sent, with the
\* outcome `o` of the round trip.  A command the server rejects ends in a
\* server error; a command that failed leaves the server's state alone.
\* `by` tells the deferred rollback ("resolve") from the call's own command;
\* `err` keeps the client's error (or "Ok") and `tc` the number of
\* transactions open on the server when the command arrived, for the history.
simple_query(c, cmd, o, by) ==
    LET e == IF o # "Ok" THEN o
             ELSE IF ServerAccepts(c.server, cmd) THEN "Ok" ELSE "Server"
    IN  [c EXCEPT !.server = IF e = "Ok" THEN ServerApply(@, cmd) ELSE @,
                  !.out    = Append(@, [cmd |-> cmd, ok |-> (e = "Ok"),
                                        err |-> e, by |-> by,
                                        tc |-> c.server.tc]),
                  !.res    = IF e = "Ok" THEN "Ok" ELSE tiberius_err(e)]

\* resolve_pending_rollback that gives the level back when its rollback fails
resolve_restores_depth(c, o) ==
    IF c.pending
    THEN LET r == simple_query([c EXCEPT !.pending = FALSE],
                               RollbackFor(c.depth), o, "resolve")
         IN  IF r.res = "Ok" THEN r ELSE [r EXCEPT !.depth = @ + 1]
    ELSE c

\* resolve_pending_rollback that clears the flag once its rollback succeeded
resolve_clears_on_success(c, o) ==
    IF c.pending
    THEN LET r == simple_query(c, RollbackFor(c.depth), o, "resolve")
         IN  IF r.res = "Ok" THEN [r EXCEPT !.pending = FALSE] ELSE r
    ELSE c

\* resolve_pending_rollback without `pending_rollback = false`
resolve_keeps_flag(c, o) ==
    IF c.pending
    THEN simple_query(c, RollbackFor(c.depth), o, "resolve")
    ELSE c

\* resolve_pending_rollback that rolls the whole transaction back at any depth
resolve_always_full(c, o) ==
    IF c.pending
    THEN simple_query([c EXCEPT !.pending = FALSE], ROLLBACK, o, "resolve")
    ELSE c

\* resolve_pending_rollback that drops the error of its rollback command
resolve_swallows_failure(c, o) ==
    IF c.pending
    THEN LET c1    == [c EXCEPT !.pending = FALSE]
             depth == c1.depth
             r     == IF depth = 0
                      THEN simple_query(c1, ROLLBACK, o, "resolve")
                      ELSE simple_query(c1, RollbackTransaction(depth), o, "resolve")
         IN  [r EXCEPT !.res = "Ok"]
    ELSE c

\* transaction.rs: resolve_pending_rollback
resolve_pending_rollback(c, o) ==
    IF c.pending
    THEN LET c1    == [c EXCEPT !.pending = FALSE]
             depth == c1.depth
         IN  IF depth = 0
             THEN simple_query(c1, ROLLBACK, o, "resolve")
             ELSE simple_query(c1, RollbackTransaction(depth), o, "resolve")
    ELSE c

\* connection/executor.rs: MssqlConnection::run (conn.execute and the fetch
\* methods all end here)
run(c, sql, o1, o2) ==
    LET r == resolve_pending_rollback(c, o1)
    IN  IF r.res # "Ok" THEN r ELSE simple_query(r, sql, o2, "call")

\* begin that sends BEGIN TRANSACTION at every depth
begin_always_begins(c, statement, o1, o2) ==
    LET r == resolve_pending_rollback(c, o1)
    IN  IF r.res # "Ok" THEN r
        ELSE LET e == run(r, BEGIN_TRANSACTION, o1, o2)
             IN  IF e.res # "Ok" THEN e
                 ELSE [e EXCEPT !.depth = @ + 1]

\* begin that counts the level before its command has succeeded
begin_counts_before_send(c, statement, o1, o2) ==
    LET depth == c.depth
        r     == resolve_pending_rollback(c, o1)
    IN  IF r.res # "Ok" THEN r
        ELSE IF statement # <<>> /\ depth > 0
        THEN [r EXCEPT !.res = "InvalidSavePointStatement"]
        ELSE LET stmt == IF statement # <<>> THEN statement[1]
                         ELSE IF depth = 0 THEN BEGIN_TRANSACTION
                         ELSE SaveTransaction(depth)
             IN  run([r EXCEPT !.depth = @ + 1], stmt, o1, o2)

\* begin without the `Some(_) if depth > 0` arm
begin_without_depth_check(c, statement, o1, o2) ==
    LET depth == c.depth
        r     == resolve_pending_rollback(c, o1)
    IN  IF r.res # "Ok" THEN r
        ELSE LET stmt == IF statement # <<>> THEN statement[1]
                         ELSE IF depth = 0 THEN BEGIN_TRANSACTION
                         ELSE SaveTransaction(depth)
                 e    == run(r, stmt, o1, o2)
             IN  IF e.res # "Ok" THEN e
                 ELSE [e EXCEPT !.depth = @ + 1]

\* transaction.rs: MssqlTransactionManager::begin; `statement` is <<>> for
\* None and <<text>> for Some(text)
begin(c, statement, o1, o2) ==
    LET depth == c.depth
        r     == resolve_pending_rollback(c, o1)
    IN  IF r.res # "Ok" THEN r
        ELSE IF statement # <<>> /\ depth > 0
        THEN [r EXCEPT !.res = "InvalidSavePointStatement"]
        ELSE LET stmt == IF statement # <<>> THEN statement[1]
                         ELSE IF depth = 0 THEN BEGIN_TRANSACTION
                         ELSE SaveTransaction(depth)
                 e    == run(r, stmt, o1, o2)
             IN  IF e.res # "Ok" THEN e
                 ELSE [e EXCEPT !.depth = @ + 1]

\* kind that does not know error 2627
kind_without_2627(number) ==
    CASE number = 2601 -> "UniqueViolation"
      [] number = 547  -> "ForeignKeyViolation"
      [] number = 515  -> "NotNullViolation"
      [] number = 2628 -> "CheckViolation"
      [] OTHER         -> "Other"

\* error.rs: MssqlDatabaseError::kind, a match on self.number
kind(number) ==
    CASE number \in {2601, 2627} -> "UniqueViolation"
      [] number = 547            -> "ForeignKeyViolation"
      [] number = 515            -> "NotNullViolation"
      [] number = 2628           -> "CheckViolation"
      [] OTHER                   -> "Other"

\* isolation_level.rs: MssqlIsolationLevel and its as_str
MssqlIsolationLevel ==
    {"ReadUncommitted", "ReadCommitted", "RepeatableRead", "Snapshot",
     "Serializable"}

MssqlIsolationLevel_as_str(level) ==
    CASE level = "ReadUncommitted" -> "READ UNCOMMITTED"
      [] level = "ReadCommitted"   -> "READ COMMITTED"
      [] level = "RepeatableRead"  -> "REPEATABLE READ"
      [] level = "Snapshot"        -> "SNAPSHOT"
      [] level = "Serializable"    -> "SERIALIZABLE"

\* format!("SET TRANSACTION ISOLATION LEVEL {level}; BEGIN TRANSACTION"):
\* one batch, an explicit begin to the server
SetIsolationBegin(level) ==
    [k |-> "EXPLICIT BEGIN", n |-> 0,
     text |-> <<"SET TRANSACTION ISOLATION LEVEL ",
                MssqlIsolationLevel_as_str(level),
                "; BEGIN TRANSACTION">>]

\* begin_with_isolation that sends SET and BEGIN at every depth
begin_with_isolation_nested(c, level, o1, o2) ==
    LET e == run(resolve_pending_rollback(c, o1), SetIsolationBegin(level),
                 o1, o2)
    IN  IF e.res # "Ok" THEN e ELSE [e EXCEPT !.depth = @ + 1]

\* MssqlConnection::begin_with_isolation
begin_with_isolation(c, level, o1, o2) ==
    begin(c, <<SetIsolationBegin(level)>>, o1, o2)

\* commit without the `if depth > 0` guard
commit_without_depth_check(c, o1, o2) ==
    LET depth == c.depth
        e     == IF depth <= 1 THEN run(c, COMMIT, o1, o2) ELSE c
    IN  IF e.res # "Ok" THEN e
        ELSE [e EXCEPT !.depth = depth - 1]

\* commit that lowers the depth before its command has succeeded
commit_counts_before_send(c, o1, o2) ==
    LET depth == c.depth
    IN  IF depth > 0
        THEN LET c1 == [c EXCEPT !.depth = depth - 1]
             IN  IF depth = 1 THEN run(c1, COMMIT, o1, o2) ELSE c1
        ELSE c

\* commit that sends COMMIT at every depth
commit_every_level(c, o1, o2) ==
    LET depth == c.depth
    IN  IF depth > 0
        THEN LET e == run(c, COMMIT, o1, o2)
             IN  IF e.res # "Ok" THEN e
                 ELSE [e EXCEPT !.depth = depth - 1]
        ELSE c

\* transaction.rs: MssqlTransactionManager::commit
commit(c, o1, o2) ==
    LET depth == c.depth
    IN  IF depth > 0
        THEN LET e == IF depth = 1 THEN run(c, COMMIT, o1, o2) ELSE c
             IN  IF e.res # "Ok" THEN e
                 ELSE [e EXCEPT !.depth = depth - 1]
        ELSE c

\* rollback that names the savepoint of the current depth
rollback_names_current(c, o1, o2) ==
    LET depth == c.depth
    IN  IF depth > 0
        THEN LET e == IF depth = 1
                      THEN run(c, ROLLBACK, o1, o2)
                      ELSE run(c, RollbackTransaction(depth), o1, o2)
             IN  IF e.res # "Ok" THEN e
                 ELSE [e EXCEPT !.depth = depth - 1]
        ELSE c

\* transaction.rs: MssqlTransactionManager::rollback
rollback(c, o1, o2) ==
    LET depth == c.depth
    IN  IF depth > 0
        THEN LET e == IF depth = 1
                      THEN run(c, ROLLBACK, o1, o2)
                      ELSE run(c, RollbackTransaction(depth - 1), o1, o2)
             IN  IF e.res # "Ok" THEN e
                 ELSE [e EXCEPT !.depth = depth - 1]
        ELSE c

\* start_rollback that leaves the depth to the deferred rollback
start_rollback_keeps_depth(c) ==
    LET depth == c.depth
    IN  IF depth > 0
        THEN [c EXCEPT !.pending = TRUE]
        ELSE c

\* start_rollback that does nothing when a rollback is already pending
start_rollback_once(c) ==
    LET depth == c.depth
    IN  IF depth > 0 /\ ~c.pending
        THEN [c EXCEPT !.pending = TRUE, !.depth = depth - 1]
        ELSE c

\* transaction.rs: MssqlTransactionManager::start_rollback
start_rollback(c) ==
    LET depth == c.depth
    IN  IF depth > 0
        THEN [c EXCEPT !.pending = TRUE, !.depth = depth - 1]
        ELSE c

\* transaction.rs: MssqlTransactionManager::get_transaction_depth
get_transaction_depth == transaction_depth

\* connection/mod.rs: Connection::ping
ping(c, o1, o2) == run(c, SELECT_1, o1, o2)

\* connection/mod.rs: MssqlConnection::bulk_insert
bulk_insert(c, o1, o2) ==
    LET r == resolve_pending_rollback(c, o1)
    IN  IF r.res # "Ok" THEN r ELSE simple_query(r, INSERT_BULK, o2, "call")

\* connection/executor.rs: Executor::prepare_with
prepare_with(c, o2) == simple_query(c, DescribeFirstResultSet, o2, "call")

\* connection/executor.rs: Executor::describe; an error of the second
\* query's send is swallowed (Err(_) => 0)
describe(c, o1, o2) ==
    LET r == simple_query(c, DescribeFirstResultSet, o1, "call")
    IN  IF r.res # "Ok" THEN r
        ELSE LET p == simple_query(r, DescribeUndeclaredParameters, o2, "call")
             IN  [p EXCEPT !.res = "Ok"]

(***************************************************************************)
(* The advisory lock functions (advisory_lock.rs).  `status` is the value  *)
(* of SELECT @r, the status the procedure returned to the batch.           *)
(***************************************************************************)
\* enum MssqlAdvisoryLockMode
MssqlAdvisoryLockMode ==
    {"MssqlAdvisoryLockMode::Shared",
     "MssqlAdvisoryLockMode::Update",
     "MssqlAdvisoryLockMode::Exclusive"}

\* as_str that names the Shared mode for an Update lock
as_str_update_is_shared(mode) ==
    CASE mode = "MssqlAdvisoryLockMode::Shared"    -> "Shared"
      [] mode = "MssqlAdvisoryLockMode::Update"    -> "Shared"
      [] mode = "MssqlAdvisoryLockMode::Exclusive" -> "Exclusive"

\* MssqlAdvisoryLockMode::as_str
as_str(mode) ==
    CASE mode = "MssqlAdvisoryLockMode::Shared"    -> "Shared"
      [] mode = "MssqlAdvisoryLockMode::Update"    -> "Update"
      [] mode = "MssqlAdvisoryLockMode::Exclusive" -> "Exclusive"

\* MssqlAdvisoryLock::with_mode
with_mode(resource, mode) == [resource |-> resource, mode |-> mode]

\* MssqlAdvisoryLock::new: the default mode is Exclusive
new(resource) == with_mode(resource, "MssqlAdvisoryLockMode::Exclusive")

\* the two timeouts of the batches as written in their text
TimeoutText(timeout) == IF timeout = 0 THEN "0" ELSE "-1"

\* a batch with the resource name written into the text as well
GetAppLock_inline_resource(resource, mode, timeout) ==
    [k |-> "sp_getapplock", n |-> 0,
     text |-> <<"DECLARE @r INT; EXEC @r = sp_getapplock @LockMode = '",
                mode,
                "', @LockOwner = 'Session', @LockTimeout = ",
                TimeoutText(timeout),
                ", @Resource = '",
                resource,
                "'; SELECT @r;">>,
     params |-> <<>>]

\* The batch of acquire and try_acquire: the text format! builds, as the
\* pieces it is put together from, and the values bound to it.  The mode
\* name is written into the text; the resource name is bound as @p1.
GetAppLock(resource, mode, timeout) ==
    [k |-> "sp_getapplock", n |-> 0,
     text |-> <<"DECLARE @r INT; EXEC @r = sp_getapplock @Resource = @p1, @LockMode = '",
                mode,
                "', @LockOwner = 'Session', @LockTimeout = ",
                TimeoutText(timeout),
                "; SELECT @r;">>,
     params |-> <<resource>>]

\* the batch of release
ReleaseAppLock(resource) ==
    [k |-> "sp_releaseapplock", n |-> 0,
     text |-> <<"DECLARE @r INT; EXEC @r = sp_releaseapplock @Resource = @p1, @LockOwner = 'Session'; SELECT @r;">>,
     params |-> <<resource>>]

\* applock_error_message
applock_error_message(status) ==
    CASE status = 0 - 1   -> " (timed out)"
      [] status = 0 - 2   -> " (lock request cancelled)"
      [] status = 0 - 3   -> " (deadlock victim)"
      [] status = 0 - 999 -> " (parameter validation or other call error)"
      [] OTHER            -> ""

\* Error::Protocol(format!("{proc} failed for resource '{}': status
\* {status}{reason}", resource))
ProtocolError(r, proc, resource, status, reason) ==
    [r EXCEPT !.res = "Protocol",
              !.msg = [proc |-> proc, resource |-> resource,
                       status |-> status, reason |-> reason]]

\* acquire that sends its batch without running the resolver
acquire_without_resolve(c, lock, status, o1, o2) ==
    LET mode == as_str(lock.mode)
        r    == simple_query(c, GetAppLock(lock.resource, mode, 0 - 1), o2,
                             "call")
    IN  IF r.res # "Ok" THEN r
        ELSE IF status < 0
        THEN ProtocolError(r, "sp_getapplock", lock.resource, status,
                           applock_error_message(status))
        ELSE r

\* acquire that asks the server not to wait
acquire_without_wait(c, lock, status, o1, o2) ==
    LET mode == as_str(lock.mode)
        r    == run(c, GetAppLock(lock.resource, mode, 0), o1, o2)
    IN  IF r.res # "Ok" THEN r
        ELSE IF status < 0
        THEN ProtocolError(r, "sp_getapplock", lock.resource, status,
                           applock_error_message(status))
        ELSE r

\* acquire that takes the timeout status -1 for "not acquired", as
\* try_acquire does
acquire_passes_timeout(c, lock, status, o1, o2) ==
    LET mode == as_str(lock.mode)
        r    == run(c, GetAppLock(lock.resource, mode, 0 - 1), o1, o2)
    IN  IF r.res # "Ok" THEN r
        ELSE IF status < 0 - 1
        THEN ProtocolError(r, "sp_getapplock", lock.resource, status,
                           applock_error_message(status))
        ELSE r

\* MssqlAdvisoryLock::acquire (query_scalar(..).fetch_one ends in run)
acquire(c, lock, status, o1, o2) ==
    LET mode == as_str(lock.mode)
        r    == run(c, GetAppLock(lock.resource, mode, 0 - 1), o1, o2)
    IN  IF r.res # "Ok" THEN r
        ELSE IF status < 0
        THEN ProtocolError(r, "sp_getapplock", lock.resource, status,
                           applock_error_message(status))
        ELSE r

\* try_acquire that asks once more when the first answer was a timeout
try_acquire_retries(c, lock, status, o1, o2) ==
    LET mode == as_str(lock.mode)
        r1   == run(c, GetAppLock(lock.resource, mode, 0), o1, o2)
        r    == IF r1.res = "Ok" /\ status = 0 - 1
                THEN run(r1, GetAppLock(lock.resource, mode, 0), o1, o2)
                ELSE r1
    IN  IF r.res # "Ok" THEN r
        ELSE IF status >= 0 THEN [r EXCEPT !.val = "true"]
        ELSE IF status = 0 - 1 THEN [r EXCEPT !.val = "false"]
        ELSE ProtocolError(r, "sp_getapplock", lock.resource, status,
                           applock_error_message(status))

\* try_acquire that takes the timeout status -1 for a grant
try_acquire_timeout_is_grant(c, lock, status, o1, o2) ==
    LET mode == as_str(lock.mode)
        r    == run(c, GetAppLock(lock.resource, mode, 0), o1, o2)
    IN  IF r.res # "Ok" THEN r
        ELSE IF status >= 0 - 1 THEN [r EXCEPT !.val = "true"]
        ELSE ProtocolError(r, "sp_getapplock", lock.resource, status,
                           applock_error_message(status))

\* try_acquire that makes an error of every negative status, as acquire does
try_acquire_raises_timeout(c, lock, status, o1, o2) ==
    LET mode == as_str(lock.mode)
        r    == run(c, GetAppLock(lock.resource, mode, 0), o1, o2)
    IN  IF r.res # "Ok" THEN r
        ELSE IF status >= 0 THEN [r EXCEPT !.val = "true"]
        ELSE ProtocolError(r, "sp_getapplock", lock.resource, status,
                           applock_error_message(status))

\* MssqlAdvisoryLock::try_acquire
try_acquire(c, lock, status, o1, o2) ==
    LET mode == as_str(lock.mode)
        r    == run(c, GetAppLock(lock.resource, mode, 0), o1, o2)
    IN  IF r.res # "Ok" THEN r
        ELSE IF status >= 0 THEN [r EXCEPT !.val = "true"]
        ELSE IF status = 0 - 1 THEN [r EXCEPT !.val = "false"]
        ELSE ProtocolError(r, "sp_getapplock", lock.resource, status,
                           applock_error_message(status))

\* release that raises when the lock is not held
release_raises_not_held(c, lock, status, o1, o2) ==
    LET r == run(c, ReleaseAppLock(lock.resource), o1, o2)
    IN  IF r.res # "Ok" THEN r
        ELSE IF status = 0 THEN [r EXCEPT !.val = "true"]
        ELSE ProtocolError(r, "sp_releaseapplock", lock.resource, status, "")

\* release that takes every status but 0 for "not held"
release_unknown_is_not_held(c, lock, status, o1, o2) ==
    LET r == run(c, ReleaseAppLock(lock.resource), o1, o2)
    IN  IF r.res # "Ok" THEN r
        ELSE IF status = 0 THEN [r EXCEPT !.val = "true"]
        ELSE [r EXCEPT !.val = "false"]

\* MssqlAdvisoryLock::release
release(c, lock, status, o1, o2) ==
    LET r == run(c, ReleaseAppLock(lock.resource), o1, o2)
    IN  IF r.res # "Ok" THEN r
        ELSE CASE status = 0       -> [r EXCEPT !.val = "true"]
               [] status = 0 - 999 -> [r EXCEPT !.val = "false"]
               [] OTHER -> ProtocolError(r, "sp_releaseapplock",
                                         lock.resource, status, "")

(***************************************************************************)
(* The guard.  A connection handle C is the connection itself or a mutable *)
(* reference to it: dropping an owned handle drops the connection, which   *)
(* closes the session; dropping a reference gives the connection back to   *)
(* the caller it was borrowed from.                                        *)
(***************************************************************************)
Handle(s, owned) == [session |-> s, owned |-> owned]

\* what a guard function hands to its caller: the connection `r` as the call
\* left it, the guard or the handle returned (Option as a sequence of at
\* most one), the warnings logged and the handles dropped on the way
Handed(r, guard, conn, warn, dropped) ==
    [c |-> r, guard |-> guard, conn |-> conn, warn |-> warn,
     dropped |-> dropped]

\* MssqlAdvisoryLockGuard::new
MssqlAdvisoryLockGuard_new(lock, conn) == [lock |-> lock, conn |-> <<conn>>]

\* drop that logs nothing
drop_silently(guard) == <<>>

\* Drop for MssqlAdvisoryLockGuard: the warnings logged
drop(guard) ==
    IF guard.conn # <<>>
    THEN <<[resource |-> guard.lock.resource,
            text |-> "dropped without calling release_now() or leak()"]>>
    ELSE <<>>

\* acquire_guard that wraps the connection whatever acquire returned
acquire_guard_unchecked(c, lock, conn, status, o1, o2) ==
    LET r == acquire(c, lock, status, o1, o2)
    IN  Handed([r EXCEPT !.res = "Ok"],
               <<MssqlAdvisoryLockGuard_new(lock, conn)>>, <<>>, <<>>, <<>>)

\* MssqlAdvisoryLock::acquire_guard
acquire_guard(c, lock, conn, status, o1, o2) ==
    LET r == acquire(c, lock, status, o1, o2)
    IN  IF r.res # "Ok" THEN Handed(r, <<>>, <<>>, <<>>, <<conn>>)
        ELSE Handed(r, <<MssqlAdvisoryLockGuard_new(lock, conn)>>, <<>>,
                    <<>>, <<>>)

\* try_acquire_guard that wraps the connection in a guard whatever the
\* server answered
try_acquire_guard_always_guards(c, lock, conn, status, o1, o2) ==
    LET r == try_acquire(c, lock, status, o1, o2)
    IN  IF r.res # "Ok" THEN Handed(r, <<>>, <<>>, <<>>, <<conn>>)
        ELSE Handed(r, <<MssqlAdvisoryLockGuard_new(lock, conn)>>, <<>>,
                    <<>>, <<>>)

\* MssqlAdvisoryLock::try_acquire_guard: Left(guard) or Right(conn)
try_acquire_guard(c, lock, conn, status, o1, o2) ==
    LET r == try_acquire(c, lock, status, o1, o2)
    IN  IF r.res # "Ok" THEN Handed(r, <<>>, <<>>, <<>>, <<conn>>)
        ELSE IF r.val = "true"
        THEN Handed(r, <<MssqlAdvisoryLockGuard_new(lock, conn)>>, <<>>,
                    <<>>, <<>>)
        ELSE Handed(r, <<>>, <<conn>>, <<>>, <<>>)

\* MssqlAdvisoryLock::force_release: (conn, released)
force_release(c, lock, conn, status, o1, o2) ==
    LET r == release(c, lock, status, o1, o2)
    IN  IF r.res # "Ok" THEN Handed(r, <<>>, <<>>, <<>>, <<conn>>)
        ELSE Handed(r, <<>>, <<conn>>, <<>>, <<>>)

\* release_now that leaves the handle in the guard until the release
\* succeeded
release_now_takes_late(c, guard, status, o1, o2) ==
    LET taken == [guard EXCEPT !.conn = <<>>]
        f     == force_release(c, guard.lock, guard.conn[1], status, o1, o2)
    IN  IF f.c.res # "Ok" THEN [f EXCEPT !.warn = drop(guard)]
        ELSE [f EXCEPT !.warn =
                (IF f.c.val # "true"
                 THEN <<[resource |-> guard.lock.resource,
                         text |-> "advisory lock was not held by the contained connection"]>>
                 ELSE <<>>) \o drop(taken)]

\* release_now that fails when the lock was not held
release_now_requires_held(c, guard, status, o1, o2) ==
    LET taken == [guard EXCEPT !.conn = <<>>]
        f     == force_release(c, guard.lock, guard.conn[1], status, o1, o2)
    IN  IF f.c.res # "Ok" THEN [f EXCEPT !.warn = drop(taken)]
        ELSE IF f.c.val # "true"
        THEN Handed(ProtocolError(f.c, "sp_releaseapplock",
                                  guard.lock.resource, status, ""),
                    <<>>, <<>>, drop(taken), f.conn)
        ELSE [f EXCEPT !.warn = drop(taken)]

\* MssqlAdvisoryLockGuard::release_now: the guard gives up its handle, the
\* lock is released on it, and the emptied guard is dropped at the end
release_now(c, guard, status, o1, o2) ==
    LET taken == [guard EXCEPT !.conn = <<>>]
        f     == force_release(c, guard.lock, guard.conn[1], status, o1, o2)
    IN  IF f.c.res # "Ok" THEN [f EXCEPT !.warn = drop(taken)]
        ELSE [f EXCEPT !.warn =
                (IF f.c.val # "true"
                 THEN <<[resource |-> guard.lock.resource,
                         text |-> "advisory lock was not held by the contained connection"]>>
                 ELSE <<>>) \o drop(taken)]

\* leak that leaves the handle in the guard it drops
leak_without_take(c, guard) ==
    Handed(c, <<>>, guard.conn, drop(guard), <<>>)

\* MssqlAdvisoryLockGuard::leak
leak(c, guard) ==
    Handed(c, <<>>, guard.conn, drop([guard EXCEPT !.conn = <<>>]), <<>>)

(***************************************************************************)
(* The state machine.                                                      *)
(***************************************************************************)
InitConn ==
    /\ transaction_depth = 0
    /\ pending_rollback = FALSE
    /\ server = ServerInit
    /\ calls = <<>>
    /\ ncalls = 0
    /\ levels = <<>>
    /\ kept = {}
    /\ failed = FALSE
    /\ armed = NoDepth
    /\ armedFirst = NoDepth
    /\ applock = [s \in Sessions |-> NotHeld]
    /\ holds = [s \in Sessions |-> NotHeld]
    /\ guards = [s \in Sessions |-> NoGuard]

Last(s) == s[Len(s)]

\* The history of transaction levels: a successful begin opens a level, a
\* statement adds its work to the innermost open level (or, outside any
\* transaction, to the kept work at once), a commit hands the level's work
\* to the enclosing level (the outermost commit: to the kept work), and a
\* rollback or a dropped handle discards the level with its work.
LevelsAfter(op, arg, r) ==
    LET n  == Len(levels)
        ok == r.res = "Ok"
    IN  CASE op \in {"begin", "begin_with_isolation"} /\ ok -> Append(levels, {})
          [] op = "execute" /\ ok /\ n > 0 ->
                [levels EXCEPT ![n] = @ \cup {arg}]
          [] op = "commit" /\ ok /\ n > 1 ->
                [SubSeq(levels, 1, n - 1) EXCEPT ![n - 1] = @ \cup levels[n]]
          [] op \in {"commit", "rollback", "start_rollback"} /\ ok /\ n > 0 ->
                SubSeq(levels, 1, n - 1)
          [] OTHER -> levels

KeptAfter(op, arg, r) ==
    LET n  == Len(levels)
        ok == r.res = "Ok"
    IN  CASE op = "execute" /\ ok /\ n = 0 -> kept \cup {arg}
          [] op = "commit" /\ ok /\ n = 1  -> kept \cup levels[1]
          [] OTHER -> kept

\* the last n elements of s
LastN(s, n) == IF Len(s) <= n THEN s ELSE SubSeq(s, Len(s) - n + 1, Len(s))

\* One API call: `r` is the connection as the driver's function left it.
Call(op, arg, r) ==
    /\ transaction_depth' = r.depth
    /\ pending_rollback' = r.pending
    /\ server' = r.server
    /\ calls' = LastN(Append(calls, [op      |-> op,
                                     arg     |-> arg,
                                     depth   |-> transaction_depth,
                                     pending |-> pending_rollback,
                                     armed   |-> armed,
                                     first   |-> armedFirst,
                                     out     |-> r.out,
                                     res     |-> r.res,
                                     val     |-> r.val,
                                     depthAfter   |-> r.depth,
                                     pendingAfter |-> r.pending]), window)
    /\ ncalls' = ncalls + 1
    /\ window' = window
    /\ levels' = LevelsAfter(op, arg, r)
    /\ kept' = KeptAfter(op, arg, r)
    /\ failed' = (failed \/ r.res # "Ok")
    /\ armed' = IF ~r.pending THEN NoDepth
                ELSE IF op = "start_rollback" THEN r.depth ELSE armed
    /\ armedFirst' = IF ~r.pending THEN NoDepth
                     ELSE IF op = "start_rollback" /\ ~pending_rollback
                          THEN r.depth ELSE armedFirst
    /\ UNCHANGED <<applock, holds, guards>>

\* Connection::begin (statement <<>>) and Connection::begin_with
\* (statement <<ExplicitBegin>>)
Begin(statement, o1, o2) ==
    Call("begin", Len(statement), begin(Conn, statement, o1, o2))

\* MssqlConnection::begin_with_isolation
BeginWithIsolation(level, o1, o2) ==
    Call("begin_with_isolation", level,
         begin_with_isolation(Conn, level, o1, o2))

\* Transaction::commit
Commit(o1, o2) == Call("commit", 0, commit(Conn, o1, o2))

\* Transaction::rollback
Rollback(o1, o2) == Call("rollback", 0, rollback(Conn, o1, o2))

\* a transaction handle dropped while open
StartRollback == Call("start_rollback", 0, start_rollback(Conn))

\* a statement executed (or fetched) on the connection; w names its work
Execute(w, o1, o2) == Call("execute", w, run(Conn, Statement(w), o1, o2))

Ping(o1, o2) == Call("ping", 0, ping(Conn, o1, o2))

BulkInsert(o1, o2) == Call("bulk_insert", 0, bulk_insert(Conn, o1, o2))

Prepare(o2) == Call("prepare", 0, prepare_with(Conn, o2))

Describe(o1, o2) == Call("describe", 0, describe(Conn, o1, o2))

\* the work of the next statement: never used before
NextWork == ncalls + 1

MoreCalls == ncalls < MaxCalls

\* Spec: every operation, every outcome of every round trip.  The claims
\* checked under it speak about one call at a time, so its history keeps
\* the last call only.
Init == InitConn /\ window = 1

Next ==
    \/ MoreCalls /\ \E st \in {<<>>, <<ExplicitBegin>>}, o1, o2 \in Outcomes :
                        Begin(st, o1, o2)
    \/ MoreCalls /\ \E o1, o2 \in Outcomes : Commit(o1, o2)
    \/ MoreCalls /\ \E o1, o2 \in Outcomes : Rollback(o1, o2)
    \/ MoreCalls /\ StartRollback
    \/ MoreCalls /\ \E o1, o2 \in Outcomes : Execute(NextWork, o1, o2)
    \/ MoreCalls /\ \E o1, o2 \in Outcomes : Ping(o1, o2)
    \/ MoreCalls /\ \E o1, o2 \in Outcomes : BulkInsert(o1, o2)
    \/ MoreCalls /\ \E o2 \in Outcomes : Prepare(o2)
    \/ MoreCalls /\ \E o1, o2 \in Outcomes : Describe(o1, o2)

Spec == Init /\ [][Next]_vars

\* SpecKind: server errors of any of these numbers reach the caller, who
\* asks each for its kind.
ErrorNumbers == (0..4) \cup (510..550) \cup (2595..2630)

Kind(number) == Call("kind", number, [Conn EXCEPT !.val = kind(number)])

InitKind == InitConn /\ window = 1

NextKind == MoreCalls /\ \E number \in ErrorNumbers : Kind(number)

SpecKind == InitKind /\ [][NextKind]_vars

\* SpecIsolation: transactions begun with an isolation level or without,
\* committed, rolled back and dropped, every outcome of every round trip;
\* the history keeps two calls, the begin and the call that follows it.
InitIsolation == InitConn /\ window = 2

NextIsolation ==
    \/ MoreCalls /\ \E level \in MssqlIsolationLevel, o1, o2 \in Outcomes :
                        BeginWithIsolation(level, o1, o2)
    \/ MoreCalls /\ \E o1, o2 \in Outcomes : Begin(<<>>, o1, o2)
    \/ MoreCalls /\ \E o1, o2 \in Outcomes : Commit(o1, o2)
    \/ MoreCalls /\ \E o1, o2 \in Outcomes : Rollback(o1, o2)
    \/ MoreCalls /\ StartRollback

SpecIsolation == InitIsolation /\ [][NextIsolation]_vars

\* Runs of begin / commit / rollback / drop / execute in which
\* no round trip fails, with the whole history kept: for the claims about
\* sequences of calls.
MoreNested == ncalls < MaxNested

InitNested == InitConn /\ window = MaxNested

NextNested ==
    \/ MoreNested /\ Begin(<<>>, "Ok", "Ok")
    \/ MoreNested /\ Commit("Ok", "Ok")
    \/ MoreNested /\ Rollback("Ok", "Ok")
    \/ MoreNested /\ StartRollback
    \/ MoreNested /\ Execute(NextWork, "Ok", "Ok")

SpecNested == InitNested /\ [][NextNested]_vars

(***************************************************************************)
(* Lock calls of the two sessions.                                         *)
(***************************************************************************)
\* the resource name the sessions contend for
Resource == "sqlx_test_try_held"

\* the lock descriptors on that name, one for each mode
Locks == {with_mode(Resource, m) : m \in MssqlAdvisoryLockMode}

\* the connection a session makes its lock calls on: session 1 is the
\* connection of the model, session 2 a connection as establish left it
ConnOf(s) ==
    IF s = 1 THEN Conn
    ELSE [Conn EXCEPT !.depth = 0, !.pending = FALSE, !.server = ServerInit]

\* the arguments @LockMode and @LockTimeout as the server reads them in the
\* text of the batch
LockModeOf(cmd) == cmd.text[2]

LockTimeoutOf(cmd) == IF cmd.text[4] = "0" THEN 0 ELSE 0 - 1

\* the lock commands of a batch that reached the server
LockCmds(out) ==
    SelectSeq(out, LAMBDA e :
        e.ok /\ e.cmd.k \in {"sp_getapplock", "sp_releaseapplock"})

\* the statuses the server can answer to the lock command of the batch
Answers(s, out, anyStatus) ==
    LET sent == LockCmds(out)
    IN  IF sent = <<>> THEN {0}
        ELSE IF sent[1].cmd.k = "sp_getapplock"
        THEN sp_getapplock(applock, s, LockModeOf(sent[1].cmd),
                           LockTimeoutOf(sent[1].cmd), anyStatus)
        ELSE sp_releaseapplock(applock, s, anyStatus)

\* the lock manager after the batch: a non-negative status of sp_getapplock
\* is a grant, status 0 of sp_releaseapplock gives one grant back
AppLockAfter(locks, s, out, status) ==
    LET sent == LockCmds(out)
    IN  IF sent = <<>> THEN locks
        ELSE IF sent[1].cmd.k = "sp_getapplock"
        THEN IF status >= 0 THEN Granted(locks, s, LockModeOf(sent[1].cmd))
             ELSE locks
        ELSE IF status = 0 THEN Released(locks, s) ELSE locks

\* what the session holds according to the results of its calls: a
\* successful acquire and an "acquired" of try_acquire add one, a
\* "released" of release takes one away
HoldsAfter(op, s, lock, r) ==
    CASE op \in {"acquire", "acquire_guard"} /\ r.res = "Ok" ->
            Granted(holds, s, lock.mode)
      [] op \in {"try_acquire", "try_acquire_guard"}
           /\ r.res = "Ok" /\ r.val = "true" -> Granted(holds, s, lock.mode)
      [] op \in {"release", "force_release", "release_now"}
           /\ r.res = "Ok" /\ r.val = "true" -> Released(holds, s)
      [] OTHER -> holds

\* the history's record of a lock call
LockRecord(op, s, lock, status, r) ==
    [op      |-> op,
     arg     |-> lock.mode,
     session |-> s,
     status  |-> status,
     depth   |-> ConnOf(s).depth,
     pending |-> ConnOf(s).pending,
     armed   |-> armed,
     first   |-> armedFirst,
     locks   |-> applock,
     held    |-> holds,
     out     |-> r.out,
     res     |-> r.res,
     val     |-> r.val,
     msg     |-> r.msg,
     depthAfter   |-> r.depth,
     pendingAfter |-> r.pending]

\* the server closes the session of an owned handle that was dropped, and a
\* closed session holds no lock
ClosedBy(dropped) == {dropped[j].session : j \in {k \in 1..Len(dropped) : dropped[k].owned}}

SessionsClosed(locks, dropped) ==
    [t \in Sessions |-> IF t \in ClosedBy(dropped) THEN NotHeld ELSE locks[t]]

\* One step of session s on the lock: `r` is its connection as the lock
\* function left it, `status` the status the server answered, `dropped` the
\* handles dropped during the call, `rec` the history's record of the call.
LockStep(op, s, lock, status, r, dropped, rec) ==
    /\ transaction_depth' = IF s = 1 THEN r.depth ELSE transaction_depth
    /\ pending_rollback' = IF s = 1 THEN r.pending ELSE pending_rollback
    /\ server' = IF s = 1 THEN r.server ELSE server
    /\ calls' = LastN(Append(calls, rec), window)
    /\ ncalls' = ncalls + 1
    /\ window' = window
    /\ failed' = (failed \/ r.res # "Ok")
    /\ armed' = IF s = 1 /\ ~r.pending THEN NoDepth ELSE armed
    /\ armedFirst' = IF s = 1 /\ ~r.pending THEN NoDepth ELSE armedFirst
    /\ UNCHANGED <<levels, kept>>
    /\ applock' = SessionsClosed(AppLockAfter(applock, s, r.out, status), dropped)
    /\ holds' = SessionsClosed(HoldsAfter(op, s, lock, r), dropped)

\* One lock call of session s made on the connection itself (reached
\* through the guard when one owns it).
LockCall(op, s, lock, status, r) ==
    /\ guards[s].open
    /\ guards[s].waiting = <<>>
    /\ LockStep(op, s, lock, status, r, <<>>,
                LockRecord(op, s, lock, status, r))
    /\ UNCHANGED guards

\* One guard call of session s: `given` is the guard or the handle the call
\* consumed, `h` what it handed back.
GuardCall(op, s, lock, status, given, h) ==
    /\ guards[s].open
    /\ guards[s].waiting = <<>>
    /\ LockStep(op, s, lock, status, h.c, h.dropped,
                LockRecord(op, s, lock, status, h.c) @@
                [given |-> given, guard |-> h.guard, conn |-> h.conn,
                 warn |-> h.warn, dropped |-> h.dropped])
    /\ guards' = [guards EXCEPT ![s] =
                    [open |-> s \notin ClosedBy(h.dropped), guard |-> h.guard,
                     abandoned |-> @.abandoned \/ (op = "drop" /\ h.warn # <<>>),
                     waiting |-> @.waiting]]

\* a session asks for the lock again only in the mode it holds it in, and
\* at most MaxHeld times
MayAsk(s, lock) ==
    /\ holds[s].n < MaxHeld
    /\ holds[s].n = 0 \/ holds[s].mode = lock.mode

\* lock.acquire(&mut conn): returns when the server has answered; while the
\* lock cannot be granted the call waits
Acquire(s, lock, anyStatus) ==
    /\ MayAsk(s, lock)
    /\ \E status \in Answers(s, acquire(ConnOf(s), lock, 0, "Ok", "Ok").out,
                             anyStatus) :
           LockCall("acquire", s, lock, status,
                    acquire(ConnOf(s), lock, status, "Ok", "Ok"))

\* lock.acquire(&mut conn) whose batch was sent and is not answered: the
\* lock cannot be granted and the batch asks to wait
AcquireSend(s, lock) ==
    /\ guards[s].open
    /\ guards[s].waiting = <<>>
    /\ MayAsk(s, lock)
    /\ LockCmds(acquire(ConnOf(s), lock, 0, "Ok", "Ok").out) # <<>>
    /\ Answers(s, acquire(ConnOf(s), lock, 0, "Ok", "Ok").out, FALSE) = {}
    /\ guards' = [guards EXCEPT ![s].waiting = <<lock>>]
    /\ UNCHANGED <<transaction_depth, pending_rollback, server, calls, ncalls,
                   window, levels, kept, failed, armed, armedFirst, applock,
                   holds>>

\* the request of a waiting session can be granted
CanGrant(s) ==
    /\ guards[s].waiting # <<>>
    /\ Grantable(applock, s, as_str(guards[s].waiting[1].mode))

\* the lock manager serves a request that waits before a new one
NoneToServe == \A s \in Sessions : ~CanGrant(s)

\* the acquire that waited returns: the lock is granted "after wait"
AcquireReturn(s) ==
    /\ CanGrant(s)
    /\ LET lock == guards[s].waiting[1]
           r    == acquire(ConnOf(s), lock, 1, "Ok", "Ok")
       IN  LockStep("acquire", s, lock, 1, r, <<>>,
                    LockRecord("acquire", s, lock, 1, r))
    /\ guards' = [guards EXCEPT ![s].waiting = <<>>]

\* lock.try_acquire(&mut conn)
TryAcquire(s, lock, anyStatus) ==
    /\ MayAsk(s, lock)
    /\ \E status \in Answers(s, try_acquire(ConnOf(s), lock, 0, "Ok", "Ok").out,
                             anyStatus) :
           LockCall("try_acquire", s, lock, status,
                    try_acquire(ConnOf(s), lock, status, "Ok", "Ok"))

\* lock.release(&mut conn)
Release(s, lock, anyStatus) ==
    \E status \in Answers(s, release(ConnOf(s), lock, 0, "Ok", "Ok").out,
                          anyStatus) :
        LockCall("release", s, lock, status,
                 release(ConnOf(s), lock, status, "Ok", "Ok"))

\* lock.acquire_guard(conn), the caller giving its handle away
AcquireGuard(s, lock, owned) ==
    /\ guards[s].guard = <<>>
    /\ MayAsk(s, lock)
    /\ \E status \in Answers(s, acquire(ConnOf(s), lock, 0, "Ok", "Ok").out,
                             FALSE) :
           GuardCall("acquire_guard", s, lock, status, Handle(s, owned),
                     acquire_guard(ConnOf(s), lock, Handle(s, owned), status,
                                   "Ok", "Ok"))

\* lock.try_acquire_guard(conn)
TryAcquireGuard(s, lock, owned) ==
    /\ guards[s].guard = <<>>
    /\ MayAsk(s, lock)
    /\ \E status \in Answers(s, try_acquire(ConnOf(s), lock, 0, "Ok", "Ok").out,
                             FALSE) :
           GuardCall("try_acquire_guard", s, lock, status, Handle(s, owned),
                     try_acquire_guard(ConnOf(s), lock, Handle(s, owned),
                                       status, "Ok", "Ok"))

\* lock.force_release(conn)
ForceRelease(s, lock, owned) ==
    /\ guards[s].guard = <<>>
    /\ \E status \in Answers(s, release(ConnOf(s), lock, 0, "Ok", "Ok").out,
                             FALSE) :
           GuardCall("force_release", s, lock, status, Handle(s, owned),
                     force_release(ConnOf(s), lock, Handle(s, owned), status,
                                   "Ok", "Ok"))

\* guard.release_now()
ReleaseNow(s) ==
    /\ guards[s].guard # <<>>
    /\ LET guard == guards[s].guard[1]
       IN  \E status \in Answers(s, release(ConnOf(s), guard.lock, 0,
                                            "Ok", "Ok").out, FALSE) :
               GuardCall("release_now", s, guard.lock, status, guard,
                         release_now(ConnOf(s), guard, status, "Ok", "Ok"))

\* guard.leak()
Leak(s) ==
    /\ guards[s].guard # <<>>
    /\ LET guard == guards[s].guard[1]
       IN  GuardCall("leak", s, guard.lock, 0, guard, leak(ConnOf(s), guard))

\* the guard goes out of scope with its handle still in it
DropGuard(s) ==
    /\ guards[s].guard # <<>>
    /\ LET guard == guards[s].guard[1]
       IN  GuardCall("drop", s, guard.lock, 0, guard,
                     Handed(ConnOf(s), <<>>, <<>>, drop(guard), guard.conn))

\* conn.close(): the owner of the connection drops it
Close(s) ==
    /\ guards[s].guard = <<>>
    /\ GuardCall("close", s, new(Resource), 0, Handle(s, TRUE),
                 Handed(ConnOf(s), <<>>, <<>>, <<>>, <<Handle(s, TRUE)>>))

MoreLockCalls == ncalls < MaxLockCalls

\* SpecLocks: the two sessions acquire, try to acquire and release the lock
\* in any order, the server answering as its lock manager decides.
InitLocks == InitConn /\ window = 2

NextLocks ==
    \/ MoreLockCalls /\ \E s \in Sessions, lock \in Locks : Acquire(s, lock, FALSE)
    \/ MoreLockCalls /\ \E s \in Sessions, lock \in Locks : TryAcquire(s, lock, FALSE)
    \/ MoreLockCalls /\ \E s \in Sessions, lock \in Locks : Release(s, lock, FALSE)

SpecLocks == InitLocks /\ [][NextLocks]_vars

\* SpecGuards: the two sessions also take the lock under a guard, on an
\* owned or a borrowed handle, release it through the guard, leak or drop
\* the guard, and close.
InitGuards == InitConn /\ window = 1

NextGuards ==
    \/ MoreLockCalls /\ \E s \in Sessions, lock \in Locks : TryAcquire(s, lock, FALSE)
    \/ MoreLockCalls /\ \E s \in Sessions : Release(s, new(Resource), FALSE)
    \/ MoreLockCalls /\ \E s \in Sessions, lock \in Locks, owned \in BOOLEAN :
                            AcquireGuard(s, lock, owned)
    \/ MoreLockCalls /\ \E s \in Sessions, lock \in Locks, owned \in BOOLEAN :
                            TryAcquireGuard(s, lock, owned)
    \/ MoreLockCalls /\ \E s \in Sessions, owned \in BOOLEAN :
                            ForceRelease(s, new(Resource), owned)
    \/ MoreLockCalls /\ \E s \in Sessions : ReleaseNow(s)
    \/ MoreLockCalls /\ \E s \in Sessions : Leak(s)
    \/ MoreLockCalls /\ \E s \in Sessions : DropGuard(s)
    \/ MoreLockCalls /\ \E s \in Sessions : Close(s)

SpecGuards == InitGuards /\ [][NextGuards]_vars

\* SpecBlocking: an acquire that cannot be granted stays sent until the
\* lock manager can grant it.  The server answers a request it has granted
\* and the caller awaits the answer, so a return that stays possible
\* happens.
InitBlocking == InitConn /\ window = 1

NextBlocking ==
    \/ MoreLockCalls /\ NoneToServe
         /\ \E s \in Sessions, lock \in Locks : Acquire(s, lock, FALSE)
    \/ MoreLockCalls /\ \E s \in Sessions, lock \in Locks : AcquireSend(s, lock)
    \/ \E s \in Sessions : AcquireReturn(s)
    \/ MoreLockCalls /\ NoneToServe
         /\ \E s \in Sessions, lock \in Locks : TryAcquire(s, lock, FALSE)
    \/ MoreLockCalls /\ \E s \in Sessions : Release(s, new(Resource), FALSE)

SpecBlocking ==
    /\ InitBlocking
    /\ [][NextBlocking]_vars
    /\ \A s \in Sessions : WF_vars(AcquireReturn(s))

\* the lock calls of SpecPending: the deferred rollback resolved first has
\* any outcome `o1`
AcquirePending(s, lock, o1) ==
    /\ MayAsk(s, lock)
    /\ \E status \in Answers(s, acquire(ConnOf(s), lock, 0, o1, "Ok").out, TRUE) :
           LockCall("acquire", s, lock, status,
                    acquire(ConnOf(s), lock, status, o1, "Ok"))

TryAcquirePending(s, lock, o1) ==
    /\ MayAsk(s, lock)
    /\ \E status \in Answers(s, try_acquire(ConnOf(s), lock, 0, o1, "Ok").out,
                             TRUE) :
           LockCall("try_acquire", s, lock, status,
                    try_acquire(ConnOf(s), lock, status, o1, "Ok"))

ReleasePending(s, lock, o1) ==
    \E status \in Answers(s, release(ConnOf(s), lock, 0, o1, "Ok").out, TRUE) :
        LockCall("release", s, lock, status,
                 release(ConnOf(s), lock, status, o1, "Ok"))

\* SpecPending: session 1 opens transactions, drops their handles and makes
\* lock calls, the deferred rollback having any outcome and the procedures
\* returning any status.
InitPending == InitConn /\ window = 1

NextPending ==
    \/ MoreLockCalls /\ Begin(<<>>, "Ok", "Ok")
    \/ MoreLockCalls /\ StartRollback
    \/ MoreLockCalls /\ \E lock \in Locks, o1 \in Outcomes :
                            AcquirePending(1, lock, o1)
    \/ MoreLockCalls /\ \E lock \in Locks, o1 \in Outcomes :
                            TryAcquirePending(1, lock, o1)
    \/ MoreLockCalls /\ \E o1 \in Outcomes : ReleasePending(1, new(Resource), o1)

SpecPending == InitPending /\ [][NextPending]_vars

(***************************************************************************)
(* The migrator's calls on a connection (migrate.rs).                      *)
(***************************************************************************)
\* migration.sql, the script of the migration
MigrationSql == Cmd("MIGRATION SQL", 0)

\* the bookkeeping statement of execute_migration
InsertMigration == Cmd("INSERT INTO _sqlx_migrations", 0)

\* the bookkeeping statement of revert_migration
DeleteMigration == Cmd("DELETE FROM _sqlx_migrations", 0)

\* apply's update of execution_time
UpdateExecutionTime == Cmd("UPDATE _sqlx_migrations", 0)

\* Migrate::unlock's batch
ReleaseMigrationLock == Cmd("EXEC sp_releaseapplock 'sqlx_migrations'", 0)

\* `?` on a sqlx error inside the migrator: From<Error> for MigrateError
MigrateError_Execute(r) ==
    IF r.res = "Ok" THEN r ELSE [r EXCEPT !.res = "Execute"]

\* migrate.rs: the script, then the bookkeeping statement `bookkeeping`, on
\* `c` (execute_migration with InsertMigration, revert_migration with
\* DeleteMigration); o1 is the outcome of a deferred rollback resolved first
migrate_script(c, bookkeeping, o1, os, ob) ==
    LET r == run(c, MigrationSql, o1, os)
    IN  IF r.res # "Ok" THEN [r EXCEPT !.res = "ExecuteMigration"]
        ELSE MigrateError_Execute(run(r, bookkeeping, o1, ob))

\* migrate.rs: execute_migration
execute_migration(c, o1, os, ob) == migrate_script(c, InsertMigration, o1, os, ob)

\* migrate.rs: revert_migration
revert_migration(c, o1, os, ob) == migrate_script(c, DeleteMigration, o1, os, ob)

\* a transaction handle going out of scope while open: Drop calls
\* start_rollback and the error on its way out is kept
drop_tx(r) == [start_rollback(r) EXCEPT !.res = r.res]

\* the `else` branch of apply and revert: begin, the two statements on the
\* transaction, commit; any `?` after the begin drops the handle, and a
\* commit that failed has left the handle open
in_transaction(c, bookkeeping, o1, obegin, os, ob, oc) ==
    LET tx == MigrateError_Execute(begin(c, <<>>, o1, obegin))
    IN  IF tx.res # "Ok" THEN tx
        ELSE LET m == migrate_script(tx, bookkeeping, o1, os, ob)
             IN  IF m.res # "Ok" THEN drop_tx(m)
                 ELSE LET e == MigrateError_Execute(commit(m, o1, oc))
                      IN  IF e.res # "Ok" THEN drop_tx(e) ELSE e

\* migrate.rs: Migrate::apply
apply(c, no_tx, o1, obegin, os, ob, oc, ou) ==
    LET m == IF no_tx THEN execute_migration(c, o1, os, ob)
             ELSE in_transaction(c, InsertMigration, o1, obegin, os, ob, oc)
    IN  IF m.res # "Ok" THEN m
        ELSE MigrateError_Execute(run(m, UpdateExecutionTime, o1, ou))

\* migrate.rs: Migrate::revert
revert(c, no_tx, o1, obegin, os, ob, oc) ==
    IF no_tx THEN revert_migration(c, o1, os, ob)
    ELSE in_transaction(c, DeleteMigration, o1, obegin, os, ob, oc)

\* migrate.rs: Migrate::unlock
unlock(c, o1, o2) == MigrateError_Execute(run(c, ReleaseMigrationLock, o1, o2))

\* the migrator's calls as steps of the connection
Apply(no_tx, o1, o) ==
    Call("apply", no_tx, apply(Conn, no_tx, o1, o[1], o[2], o[3], o[4], o[5]))

Revert(no_tx, o1, o) ==
    Call("revert", no_tx, revert(Conn, no_tx, o1, o[1], o[2], o[3], o[4]))

Unlock(o1, o2) == Call("unlock", 0, unlock(Conn, o1, o2))

\* the outcomes of a call's n round trips: all succeed, or the k-th fails
\* with e and none is made after it
RoundTrips(n) ==
    {[i \in 1..n |-> IF i = k THEN e ELSE "Ok"] :
        k \in 0..n, e \in Outcomes \ {"Ok"}}

\* the outcome of resolving the deferred rollback, when there is one
ResolveOutcomes == IF pending_rollback THEN Outcomes ELSE {"Ok"}

MoreMigrations == ncalls < MaxMigrate

\* SpecMigrate: migrations applied and reverted on a connection, inside a
\* transaction of the caller or outside, every outcome of every round trip,
\* followed by the unlock or by any other command; the history keeps two
\* calls, the migration and the call that follows it.
InitMigrate == InitConn /\ window = 2

NextMigrate ==
    \/ MoreMigrations /\ \E no_tx \in BOOLEAN, o1 \in ResolveOutcomes,
                              o \in RoundTrips(5) : Apply(no_tx, o1, o)
    \/ MoreMigrations /\ \E no_tx \in BOOLEAN, o1 \in ResolveOutcomes,
                              o \in RoundTrips(4) : Revert(no_tx, o1, o)
    \/ MoreMigrations /\ \E o1 \in ResolveOutcomes, o2 \in Outcomes :
                             Unlock(o1, o2)
    \/ MoreMigrations /\ Begin(<<>>, "Ok", "Ok")
    \/ MoreMigrations /\ Commit("Ok", "Ok")
    \/ MoreMigrations /\ \E o1 \in ResolveOutcomes, o2 \in Outcomes :
                             Execute(NextWork, o1, o2)
    \/ MoreMigrations /\ \E o2 \in Outcomes : Prepare(o2)

SpecMigrate == InitMigrate /\ [][NextMigrate]_vars

\* the guard calls of SpecGuardStatus: the procedure answers any status and
\* the round trip of the batch has any outcome `o2`
AcquireGuardStatus(s, lock, owned, o2) ==
    /\ guards[s].guard = <<>>
    /\ MayAsk(s, lock)
    /\ \E status \in Answers(s, acquire(ConnOf(s), lock, 0, "Ok", o2).out, TRUE) :
           GuardCall("acquire_guard", s, lock, status, Handle(s, owned),
                     acquire_guard(ConnOf(s), lock, Handle(s, owned), status,
                                   "Ok", o2))

TryAcquireGuardStatus(s, lock, owned, o2) ==
    /\ guards[s].guard = <<>>
    /\ MayAsk(s, lock)
    /\ \E status \in Answers(s, try_acquire(ConnOf(s), lock, 0, "Ok", o2).out,
                             TRUE) :
           GuardCall("try_acquire_guard", s, lock, status, Handle(s, owned),
                     try_acquire_guard(ConnOf(s), lock, Handle(s, owned),
                                       status, "Ok", o2))

ReleaseNowStatus(s, o2) ==
    /\ guards[s].guard # <<>>
    /\ LET guard == guards[s].guard[1]
       IN  \E status \in Answers(s, release(ConnOf(s), guard.lock, 0,
                                            "Ok", o2).out, TRUE) :
               GuardCall("release_now", s, guard.lock, status, guard,
                         release_now(ConnOf(s), guard, status, "Ok", o2))

\* SpecGuardStatus: the two sessions take the lock under a guard and give
\* the guard up by release_now, leak or drop, the procedures returning any
\* status and every round trip having any outcome.
MoreGuardCalls == ncalls < MaxGuardCalls

InitGuardStatus == InitConn /\ window = 1

NextGuardStatus ==
    \/ MoreGuardCalls /\ \E s \in Sessions, lock \in Locks, owned \in BOOLEAN,
                           o2 \in Outcomes : AcquireGuardStatus(s, lock, owned, o2)
    \/ MoreGuardCalls /\ \E s \in Sessions, lock \in Locks, owned \in BOOLEAN,
                           o2 \in Outcomes : TryAcquireGuardStatus(s, lock, owned, o2)
    \/ MoreGuardCalls /\ \E s \in Sessions, o2 \in Outcomes : ReleaseNowStatus(s, o2)
    \/ MoreGuardCalls /\ \E s \in Sessions : Leak(s)
    \/ MoreGuardCalls /\ \E s \in Sessions : DropGuard(s)

SpecGuardStatus == InitGuardStatus /\ [][NextGuardStatus]_vars

\* the lock calls of SpecBatch: the deferred rollback resolved first has any
\* outcome `o1`, the round trip of the batch any outcome `o2`, and the
\* procedure answers any status
AcquireBatch(s, lock, o1, o2) ==
    /\ MayAsk(s, lock)
    /\ \E status \in Answers(s, acquire(ConnOf(s), lock, 0, o1, o2).out, TRUE) :
           LockCall("acquire", s, lock, status,
                    acquire(ConnOf(s), lock, status, o1, o2))

TryAcquireBatch(s, lock, o1, o2) ==
    /\ MayAsk(s, lock)
    /\ \E status \in Answers(s, try_acquire(ConnOf(s), lock, 0, o1, o2).out,
                             TRUE) :
           LockCall("try_acquire", s, lock, status,
                    try_acquire(ConnOf(s), lock, status, o1, o2))

ReleaseBatch(s, lock, o1, o2) ==
    \E status \in Answers(s, release(ConnOf(s), lock, 0, o1, o2).out, TRUE) :
        LockCall("release", s, lock, status,
                 release(ConnOf(s), lock, status, o1, o2))

MoreBatches == ncalls < MaxBatches

\* SpecBatch: session 1 opens transactions, drops their handles and makes
\* lock calls; every round trip has any outcome and the procedures return
\* any status.
InitBatch == InitConn /\ window = 1

NextBatch ==
    \/ MoreBatches /\ Begin(<<>>, "Ok", "Ok")
    \/ MoreBatches /\ StartRollback
    \/ MoreBatches /\ \E lock \in Locks, o1 \in ResolveOutcomes, o2 \in Outcomes :
                          AcquireBatch(1, lock, o1, o2)
    \/ MoreBatches /\ \E lock \in Locks, o1 \in ResolveOutcomes, o2 \in Outcomes :
                          TryAcquireBatch(1, lock, o1, o2)
    \/ MoreBatches /\ \E o1 \in ResolveOutcomes, o2 \in Outcomes :
                          ReleaseBatch(1, new(Resource), o1, o2)

SpecBatch == InitBatch /\ [][NextBatch]_vars

(***************************************************************************)
(* Encoding and decoding of i8 (types/int.rs).  TINYINT is unsigned: an    *)
(* argument or a column value is a tagged integer, U8 holding 0..255.      *)
(***************************************************************************)
\* the values of i8 and of u8
I8 == (0 - 128)..127

U8 == 0..255

\* MssqlArgumentValue::U8(v) / MssqlData::U8(v) and the other variants
Value(t, v) == [t |-> t, v |-> v]

\* `x as u8`: the low eight bits
as_u8(x) == x % 256

\* i8::try_from(v): Some as a sequence of one, None as the empty one
try_into_i8(v) == IF v \in I8 THEN <<v>> ELSE <<>>

\* an encoder that casts without looking at the sign
i8_encode_wraps(self, buf) ==
    [res |-> "Ok", buf |-> Append(buf, Value("U8", as_u8(self)))]

\* types/int.rs: Encode<Mssql> for i8: encode_by_ref
i8_encode_by_ref(self, buf) ==
    IF self < 0
    THEN [res |-> "Err", buf |-> buf]
    ELSE [res |-> "Ok", buf |-> Append(buf, Value("U8", as_u8(self)))]

\* types/int.rs: Decode<Mssql> for i8: decode; `v` is Ok's value
i8_decode(value) ==
    IF value.t \in {"U8", "I16", "I32", "I64"}
    THEN IF try_into_i8(value.v) # <<>>
         THEN [res |-> "Ok", v |-> <<try_into_i8(value.v)[1]>>]
         ELSE [res |-> "Err", v |-> <<>>]
    ELSE [res |-> "Err", v |-> <<>>]

\* the argument as the server gives it back in a row (SELECT @p1)
Echo(argument) == Value(argument.t, argument.v)

\* the argument buffers an encode is given: empty, or one argument pushed
Buffers == {<<>>, <<Value("I32", 7)>>}

\* the column values a decode is given: every TINYINT, integers of the
\* wider types around the ends of i8, NULL and a value that is no integer
ColumnValues ==
    {Value("U8", v) : v \in U8}
      \cup {Value(t, v) : t \in {"I16", "I32", "I64"},
                          v \in {0 - 129, 0 - 128, 0 - 1, 0, 127, 128, 255, 256}}
      \cup {Value("Null", 0), Value("F64", 1)}

EncodeI8(self, buf) ==
    LET e == i8_encode_by_ref(self, buf)
    IN  Call("encode", [self |-> self, buf |-> buf],
             [Conn EXCEPT !.res = e.res, !.val = e.buf])

DecodeI8(value) ==
    LET d == i8_decode(value)
    IN  Call("decode", value, [Conn EXCEPT !.res = d.res, !.val = d.v])

\* an i8 bound to a query that selects it back, and the row decoded
RoundTripI8(self) ==
    LET e == i8_encode_by_ref(self, <<>>)
        d == IF e.res = "Ok" THEN i8_decode(Echo(Last(e.buf)))
             ELSE [res |-> "Err", v |-> <<>>]
    IN  Call("round_trip", [self |-> self, buf |-> <<>>],
             [Conn EXCEPT !.res = d.res, !.val = d.v])

\* SpecI8: i8 values encoded, column values decoded into i8.
MoreConversions == ncalls < MaxConversions

InitI8 == InitConn /\ window = 1

NextI8 ==
    \/ MoreConversions /\ \E self \in I8, buf \in Buffers : EncodeI8(self, buf)
    \/ MoreConversions /\ \E value \in ColumnValues : DecodeI8(value)
    \/ MoreConversions /\ \E self \in I8 : RoundTripI8(self)

SpecI8 == InitI8 /\ [][NextI8]_vars

\* SpecStatus: the same calls, the procedures returning any status.
InitStatus == InitConn /\ window = 1

NextStatus ==
    \/ MoreLockCalls /\ \E s \in Sessions, lock \in Locks : Acquire(s, lock, TRUE)
    \/ MoreLockCalls /\ \E s \in Sessions, lock \in Locks : TryAcquire(s, lock, TRUE)
    \/ MoreLockCalls /\ \E s \in Sessions, lock \in Locks : Release(s, lock, TRUE)

SpecStatus == InitStatus /\ [][NextStatus]_vars

(***************************************************************************)
(* Reading the history.                                                    *)
(***************************************************************************)
\* the commands of one call's batch, in the order sent
Cmds(out) == [j \in 1..Len(out) |-> out[j].cmd]

\* the entries of a batch sent by the deferred-rollback resolver / by the
\* call's own code
ByResolve(out) == SelectSeq(out, LAMBDA e : e.by = "resolve")

ByCall(out) == SelectSeq(out, LAMBDA e : e.by = "call")

\* the number of commands of kind k in a batch
CountKind(out, k) == Len(SelectSeq(out, LAMBDA e : e.cmd.k = k))

\* the work of all open levels
OpenWork == UNION {levels[i] : i \in 1..Len(levels)}

\* calls i..j of the history all have operation op
AllOp(i, j, op) == \A k \in i..j : calls[k].op = op

(***************************************************************************)
(* C1: over any run of begin, commit, rollback, dropped handles and        *)
(* statements in which no command fails, the work of a level is kept if    *)
(* and only if the level and every level around it ended in commit: while  *)
(* no rollback is pending the session sees exactly the kept work and the   *)
(* work of the open levels, and once the depth is back at 0 the committed  *)
(* data is exactly the kept work.                                          *)
(***************************************************************************)
C1_WorkKeptIffCommitted ==
    (~failed /\ ~pending_rollback) =>
        /\ server.cur = kept \cup OpenWork
        /\ (transaction_depth = 0 => server.base = kept)

(***************************************************************************)
(* C2: N successful begins from depth 0 followed by N commits return the   *)
(* depth to 0 and send exactly one BEGIN TRANSACTION (by the first begin,  *)
(* which sends no SAVE TRANSACTION), exactly N-1 SAVE TRANSACTION (one by  *)
(* each later begin) and exactly one COMMIT, sent by the last commit; the  *)
(* commits at depth > 1 send nothing.                                      *)
(***************************************************************************)
\* calls i .. i+2N-1 are N successful begins from depth 0, then N commits
\* (every prefix of a history is the history of an earlier state, so the
\* formula speaks of the runs that end at the last call)
BeginsThenCommits(i, N) ==
    /\ N >= 1
    /\ i >= 1
    /\ i + 2 * N - 1 = Len(calls)
    /\ calls[i].depth = 0
    /\ AllOp(i, i + N - 1, "begin")
    /\ \A k \in i..(i + N - 1) : calls[k].res = "Ok"
    /\ AllOp(i + N, i + 2 * N - 1, "commit")

C2_BalancedNesting ==
    \A N \in 1..Len(calls) :
        LET i == Len(calls) - 2 * N + 1
        IN  BeginsThenCommits(i, N) =>
            /\ calls[i + 2 * N - 1].depthAfter = 0
            /\ Cmds(ByCall(calls[i].out)) = <<BEGIN_TRANSACTION>>
            /\ \A k \in 1..(N - 1) :
                   /\ CountKind(calls[i + k].out, "SAVE TRANSACTION") = 1
                   /\ CountKind(calls[i + k].out, "BEGIN TRANSACTION") = 0
            /\ \A k \in 0..(2 * N - 1) :
                   CountKind(calls[i + k].out, "COMMIT")
                       = IF k = 2 * N - 1 THEN 1 ELSE 0
            /\ \A k \in N..(2 * N - 2) : calls[i + k].out = <<>>
            /\ \A k \in N..(2 * N - 1) :
                   /\ CountKind(calls[i + k].out, "SAVE TRANSACTION") = 0
                   /\ CountKind(calls[i + k].out, "BEGIN TRANSACTION") = 0

\* three begins and three commits have been made, and the depth is 0 again
C2_Witness ==
    /\ BeginsThenCommits(1, 3)
    /\ transaction_depth = 0
    /\ server.tc = 0

(***************************************************************************)
(* C3: rollback() called at depth D >= 2 sends, as its own command, the    *)
(* savepoint rollback naming depth D-1, never depth D; called at depth 1   *)
(* it sends a plain ROLLBACK.  (Its own command is not sent when the       *)
(* deferred rollback resolved before it fails.)                            *)
(***************************************************************************)
ResolveFailed(out) ==
    \E j \in 1..Len(out) : out[j].by = "resolve" /\ ~out[j].ok

DroppedAtDepth1(i) ==
    /\ calls[i].op = "start_rollback"
    /\ calls[i].depth = 1

C4_DropThenStatement ==
    \A i \in 1..Len(calls) :
        DroppedAtDepth1(i) =>
            /\ calls[i].depthAfter = 0
            /\ calls[i].pendingAfter
            /\ calls[i].out = <<>>
            /\ \A j \in {Len(calls)} \ {i} :
                   AllOp(i + 1, j, "execute") =>
                       Cmds(calls[j].out) =
                           IF j = i + 1
                           THEN <<ROLLBACK, Statement(calls[j].arg)>>
                           ELSE <<Statement(calls[j].arg)>>

\* a handle was dropped at depth 1 and two statements were executed after it
C4_Witness ==
    \E i \in 1..Len(calls) :
        /\ DroppedAtDepth1(i)
        /\ i + 2 <= Len(calls)
        /\ AllOp(i + 1, i + 2, "execute")
        /\ server.tc = 0

(***************************************************************************)
(* C5: the command sent by resolve_pending_rollback is fixed by the depth  *)
(* recorded when start_rollback set the flag (ROLLBACK for 0, otherwise    *)
(* the savepoint rollback for that depth), whatever is called between the  *)
(* drop and the resolution, commit() at depth > 1 included.                *)
(***************************************************************************)
C5_TargetFixedAtDrop ==
    \A i \in {Len(calls)} \ {0} :
        LET res == ByResolve(calls[i].out)
        IN  \A j \in 1..Len(res) : res[j].cmd = RollbackFor(calls[i].armed)

(***************************************************************************)
(* C6: whenever pending_rollback is true, the next command the connection  *)
(* sends, from whichever operation, is the deferred rollback: no call's    *)
(* own command goes out while the flag is set.                             *)
(***************************************************************************)
C6_ResolveAlwaysFirst ==
    \A i \in {Len(calls)} \ {0} :
        (calls[i].pending /\ calls[i].out # <<>>) =>
            /\ calls[i].out[1].by = "resolve"
            /\ calls[i].out[1].cmd.k \in {"ROLLBACK", "ROLLBACK TRANSACTION"}

(***************************************************************************)
(* C7: when two or more handles are dropped in succession with no command  *)
(* in between, every start_rollback lowers the depth by 1 and only one     *)
(* rollback command is sent for them.                                      *)
(*   as claimed: its target is the depth that was current when the flag    *)
(*               was first set;                                            *)
(*   as amended: its target is the depth at the time of the resolution,    *)
(*               which for a resolution right after the drops is the depth *)
(*               left by the last of them.                                 *)
(***************************************************************************)
\* calls i..j are start_rollback calls at depth > 0, call i setting the flag
DropsInSuccession(i, j) ==
    /\ i < j
    /\ j <= Len(calls)
    /\ AllOp(i, j, "start_rollback")
    /\ ~calls[i].pending
    /\ \A k \in i..j : calls[k].depth > 0

\* call m is the one that clears the flag after the drop j
ResolvedBy(j, m) ==
    /\ j < m
    /\ m <= Len(calls)
    /\ ~calls[m].pendingAfter
    /\ \A k \in (j + 1)..(m - 1) : calls[k].pendingAfter

\* (every prefix of a history is the history of an earlier state: the
\* formulas speak of the resolution made by the last call)
C7_DropsEachLowerDepth(i, j) ==
    \A k \in i..j :
        /\ calls[k].depthAfter = calls[k].depth - 1
        /\ calls[k].pendingAfter
        /\ calls[k].out = <<>>

\* one rollback command is sent for the drops i..j: by call m and by no
\* call before it
C7_OneRollback(i, m) ==
    /\ Len(ByResolve(calls[m].out)) = 1
    /\ \A k \in i..(m - 1) : ByResolve(calls[k].out) = <<>>

\* C7 as claimed: each drop lowers the depth by 1, one rollback command is
\* sent for the drops, and its target is the depth that was current when the
\* flag was first set (read as the depth before or after the decrement of
\* that start_rollback).
C7_TargetWhenFirstSet ==
    \A i \in 1..Len(calls), j \in 1..Len(calls), m \in {Len(calls)} :
        (DropsInSuccession(i, j) /\ ResolvedBy(j, m)) =>
            /\ C7_DropsEachLowerDepth(i, j)
            /\ C7_OneRollback(i, m)
            /\ ByResolve(calls[m].out)[1].cmd \in
                   {RollbackFor(calls[i].depthAfter), RollbackFor(calls[i].depth)}

\* C7 as amended: each drop lowers the depth by 1, one rollback command is
\* sent for the drops, by the call that clears the flag, and its target is
\* the depth at that call: the depth left by the last drop when that call
\* comes right after it.
C7_TargetAtResolution ==
    \A i \in 1..Len(calls), j \in 1..Len(calls), m \in {Len(calls)} :
        (DropsInSuccession(i, j) /\ ResolvedBy(j, m)) =>
            /\ C7_DropsEachLowerDepth(i, j)
            /\ C7_OneRollback(i, m)
            /\ ByResolve(calls[m].out)[1].cmd = RollbackFor(calls[m].depth)
            /\ (m = j + 1) =>
                   ByResolve(calls[m].out)[1].cmd = RollbackFor(calls[j].depthAfter)

\* two handles were dropped in succession at depths 3 and 2 and the next
\* call has sent the one rollback
C7_Witness ==
    \E i \in 1..Len(calls) :
        /\ DropsInSuccession(i, i + 1)
        /\ calls[i].depth = 3
        /\ ResolvedBy(i + 1, i + 2)

(***************************************************************************)
(* C8: the scenario begin; begin; begin; drop of the handle; commit;       *)
(* commit from a fresh connection.                                         *)
(*   as claimed: the depth reads 1 right after the drop, one pending       *)
(*               rollback targeting savepoint 1 is recorded, it is sent    *)
(*               before the SQL of the next commit, and the commits bring  *)
(*               the depth from 1 to 0 with a real COMMIT;                 *)
(*   as amended: all of that holds of begin; begin; drop; commit; commit   *)
(*               (after three begins and a drop the depth reads 2).        *)
(***************************************************************************)
\* the history is exactly the first n calls of the scenario
Ran(scenario, n) ==
    /\ Len(calls) = n
    /\ \A k \in 1..n : calls[k].op = scenario[k]

ThreeBegins == <<"begin", "begin", "begin", "start_rollback", "commit", "commit">>

TwoBegins == <<"begin", "begin", "start_rollback", "commit", "commit">>

\* right after the drop (call n): depth 1, one rollback pending for
\* savepoint 1, nothing sent
C8_AfterDrop(n) ==
    /\ get_transaction_depth = 1
    /\ pending_rollback
    /\ armed = 1
    /\ calls[n].out = <<>>

\* the next commit (call n): the deferred rollback, then COMMIT; depth 1 -> 0
C8_FirstCommit(n) ==
    /\ calls[n].depth = 1
    /\ Cmds(calls[n].out) = <<RollbackTransaction(1), COMMIT>>
    /\ calls[n].out[1].by = "resolve"
    /\ \A j \in 1..2 : calls[n].out[j].ok
    /\ get_transaction_depth = 0
    /\ ~pending_rollback

\* the second commit (call n): depth stays 0, one COMMIT was sent in all
C8_SecondCommit(n) ==
    /\ get_transaction_depth = 0
    /\ ~pending_rollback
    /\ calls[n].out = <<>>
    /\ server.tc = 0

BeginKinds == {"BEGIN TRANSACTION", "SAVE TRANSACTION", "EXPLICIT BEGIN"}

C9_BeginCountsOnSuccess ==
    \A i \in {Len(calls)} \ {0} :
        calls[i].op = "begin" =>
            LET own       == ByCall(calls[i].out)
                succeeded == Len(own) = 1 /\ own[1].ok /\ own[1].cmd.k \in BeginKinds
            IN  /\ succeeded <=> calls[i].res = "Ok"
                /\ succeeded => calls[i].depthAfter = calls[i].depth + 1
                /\ calls[i].res # "Ok" => calls[i].depthAfter = calls[i].depth
                /\ get_transaction_depth = calls[i].depthAfter

\* a begin at depth 1 whose SAVE TRANSACTION failed has returned the error
C9_Witness ==
    /\ calls # <<>>
    /\ Last(calls).op = "begin"
    /\ Last(calls).depth = 1
    /\ Last(calls).res = "Io"
    /\ Cmds(ByCall(Last(calls).out)) = <<SaveTransaction(1)>>
    /\ transaction_depth = 1

(***************************************************************************)
(* C10: begin with an explicit statement.                                  *)
(*   as claimed: at depth > 0 it fails with the invalid-savepoint-         *)
(*               statement error, sends neither the explicit text nor any  *)
(*               BEGIN / SAVE TRANSACTION and leaves the depth unchanged;  *)
(*               at depth 0 the explicit text is sent in place of BEGIN    *)
(*               TRANSACTION and the depth becomes 1;                      *)
(*   as amended: at depth > 0 the error is the invalid-savepoint-statement *)
(*               error unless the deferred rollback, resolved first,       *)
(*               fails, and then it is that failure.                       *)
(***************************************************************************)
ExplicitBeginCall(i) == calls[i].op = "begin" /\ calls[i].arg = 1

\* no BEGIN / SAVE TRANSACTION and no explicit text in the batch
NoBeginSent(out) == \A j \in 1..Len(out) : out[j].cmd.k \notin BeginKinds

\* at depth 0: the explicit text is the only begin command sent, and a
\* successful call leaves depth 1
C10_AtDepth0(i) ==
    /\ \A j \in 1..Len(calls[i].out) :
           calls[i].out[j].cmd.k \in BeginKinds => calls[i].out[j].cmd = ExplicitBegin
    /\ ~ResolveFailed(calls[i].out) => Cmds(ByCall(calls[i].out)) = <<ExplicitBegin>>
    /\ calls[i].res = "Ok" => calls[i].depthAfter = 1

\* C10 as claimed: an explicit begin at depth > 0 returns the
\* invalid-savepoint-statement error, sends no begin command and leaves the
\* depth; at depth 0 it sends the explicit text and the depth becomes 1.
C10_ExplicitRejectedWhenNested ==
    \A i \in {Len(calls)} \ {0} :
        ExplicitBeginCall(i) =>
            /\ calls[i].depth > 0 =>
                   /\ calls[i].res = "InvalidSavePointStatement"
                   /\ NoBeginSent(calls[i].out)
                   /\ calls[i].depthAfter = calls[i].depth
            /\ calls[i].depth = 0 => C10_AtDepth0(i)

\* C10 as amended: an explicit begin at depth > 0 returns the
\* invalid-savepoint-statement error unless the deferred rollback resolved
\* first failed (then that error), sends no begin command and leaves the
\* depth; at depth 0 it sends the explicit text and the depth becomes 1.
C10_ExplicitRejectedAfterResolve ==
    \A i \in {Len(calls)} \ {0} :
        ExplicitBeginCall(i) =>
            /\ calls[i].depth > 0 =>
                   /\ ~ResolveFailed(calls[i].out) =>
                          calls[i].res = "InvalidSavePointStatement"
                   /\ ResolveFailed(calls[i].out) =>
                          calls[i].res \in {"Database", "Io", "Protocol"}
                   /\ NoBeginSent(calls[i].out)
                   /\ calls[i].depthAfter = calls[i].depth
            /\ calls[i].depth = 0 => C10_AtDepth0(i)

\* an explicit begin at depth 1 was rejected after the deferred rollback
\* before it went through
C10_Witness ==
    /\ calls # <<>>
    /\ ExplicitBeginCall(Len(calls))
    /\ Last(calls).depth = 1
    /\ Last(calls).pending
    /\ Last(calls).res = "InvalidSavePointStatement"
    /\ Cmds(Last(calls).out) = <<RollbackTransaction(1)>>

(***************************************************************************)
(* C11: commit and rollback called at depth 0 send no command, return      *)
(* success and leave the depth at 0; under every sequence of calls the     *)
(* depth never goes below 0.                                               *)
(***************************************************************************)
C11_NoOpAtDepth0 ==
    /\ get_transaction_depth >= 0
    /\ \A i \in {Len(calls)} \ {0} :
           /\ calls[i].depthAfter >= 0
           /\ (calls[i].op \in {"commit", "rollback"} /\ calls[i].depth = 0) =>
                  /\ calls[i].out = <<>>
                  /\ calls[i].res = "Ok"
                  /\ calls[i].depthAfter = 0
                  /\ calls[i].pendingAfter = calls[i].pending

\* rollback() was called at depth 0 while a rollback was pending and has
\* returned without sending it
C11_Witness ==
    /\ calls # <<>>
    /\ Last(calls).op = "rollback"
    /\ Last(calls).depth = 0
    /\ Last(calls).pending
    /\ Last(calls).out = <<>>
    /\ transaction_depth = 0

(***************************************************************************)
(* C12: commit at depth D > 0 lowers the depth to D-1 only after its       *)
(* (possibly absent) command succeeded: when the COMMIT sent at depth 1    *)
(* fails (or the deferred rollback resolved before it does), commit        *)
(* returns the error and the depth stays as it was.                        *)
(***************************************************************************)
\* some command of the batch failed
SomeFailed(out) == \E j \in 1..Len(out) : ~out[j].ok

C12_CommitCountsOnSuccess ==
    \A i \in {Len(calls)} \ {0} :
        (calls[i].op = "commit" /\ calls[i].depth > 0) =>
            LET D == calls[i].depth
            IN  /\ calls[i].res = "Ok" <=> ~SomeFailed(calls[i].out)
                /\ calls[i].res = "Ok" => calls[i].depthAfter = D - 1
                /\ calls[i].res # "Ok" => calls[i].depthAfter = D
                /\ D = 1 /\ ~ResolveFailed(calls[i].out) =>
                       Cmds(ByCall(calls[i].out)) = <<COMMIT>>
                /\ D > 1 => calls[i].out = <<>>
                /\ get_transaction_depth = calls[i].depthAfter

\* the COMMIT sent at depth 1 failed: commit returned the error and the
\* depth is still 1
C12_Witness ==
    /\ calls # <<>>
    /\ Last(calls).op = "commit"
    /\ Last(calls).depth = 1
    /\ Cmds(Last(calls).out) = <<COMMIT>>
    /\ ~Last(calls).out[1].ok
    /\ Last(calls).res = "Io"
    /\ transaction_depth = 1

(***************************************************************************)
(* C13: rollback() called at depth D >= 1 leaves the depth at D-1 when it  *)
(* returns, whichever rollback command it sent and whether or not that     *)
(* command succeeded.                                                      *)
(***************************************************************************)
C13_RollbackAlwaysDecrements ==
    \A i \in {Len(calls)} \ {0} :
        (calls[i].op = "rollback" /\ calls[i].depth >= 1) =>
            /\ calls[i].depthAfter = calls[i].depth - 1
            /\ get_transaction_depth = calls[i].depth - 1

(***************************************************************************)
(* C14: when the deferred rollback command fails, the operation that       *)
(* triggered the resolution returns the failure to its caller and does not *)
(* send its own command; the failure is never swallowed.                   *)
(*   as claimed: the failure is returned as a protocol error;              *)
(*   as amended: it is returned as tiberius_err converts it: a database    *)
(*               error for an error of the server, an I/O error for an     *)
(*               error of the transport, a protocol error for any other    *)
(*               error of the client.                                      *)
(***************************************************************************)
\* the operations that resolve a pending rollback before their own command
Resolving == {"begin", "commit", "rollback", "execute", "ping", "bulk_insert"}

\* the failed deferred rollback is the only command of the batch
OnlyResolveSent(out) ==
    /\ Len(out) = 1
    /\ out[1].by = "resolve"
    /\ out[1].cmd.k \in {"ROLLBACK", "ROLLBACK TRANSACTION"}
    /\ ByCall(out) = <<>>

\* C14 as claimed: the call returns the failure as a protocol error and has
\* not sent its own command.
C14_ResolveFailureIsProtocol ==
    \A i \in {Len(calls)} \ {0} :
        ResolveFailed(calls[i].out) =>
            /\ OnlyResolveSent(calls[i].out)
            /\ calls[i].res = "Protocol"

\* C14 as amended: the call returns the failure as tiberius_err converts it
\* and has not sent its own command.
C14_ResolveFailureReturned ==
    \A i \in {Len(calls)} \ {0} :
        ResolveFailed(calls[i].out) =>
            /\ calls[i].op \in Resolving
            /\ OnlyResolveSent(calls[i].out)
            /\ calls[i].out[1].err \in {"Server", "Io", "Other"}
            /\ calls[i].res = tiberius_err(calls[i].out[1].err)
            /\ calls[i].res \in {"Database", "Io", "Protocol"}
            /\ failed

\* bulk_insert met an I/O error of the deferred ROLLBACK and returned it as
\* an I/O error without sending INSERT BULK
C14_Witness ==
    /\ calls # <<>>
    /\ Last(calls).op = "bulk_insert"
    /\ Last(calls).pending
    /\ Len(Last(calls).out) = 1
    /\ Last(calls).out[1].cmd = ROLLBACK
    /\ Last(calls).out[1].err = "Io"
    /\ Last(calls).res = "Io"

(***************************************************************************)
(* C15: acquire returns success if and only if the status returned by the  *)
(* acquire procedure is >= 0; for every negative status it fails with a    *)
(* protocol error that carries the status code and the reason for it       *)
(* (-1 timed out, -2 cancelled, -3 deadlock victim, -999 parameter or call *)
(* error), -1 included although the wait is infinite.                      *)
(***************************************************************************)
\* the last call is a call of `op` that got the procedure's status
Returned(i, op) ==
    /\ calls[i].op = op
    /\ LockCmds(calls[i].out) # <<>>

\* the reason the text of the error names for a documented failure status
DocumentedReason(status) ==
    CASE status = 0 - 1   -> " (timed out)"
      [] status = 0 - 2   -> " (lock request cancelled)"
      [] status = 0 - 3   -> " (deadlock victim)"
      [] status = 0 - 999 -> " (parameter validation or other call error)"

DocumentedFailures == {0 - 1, 0 - 2, 0 - 3, 0 - 999}

\* the call failed with a protocol error that names procedure, resource and
\* status
FailedWithStatus(i, proc) ==
    /\ calls[i].res = "Protocol"
    /\ calls[i].msg.proc = proc
    /\ calls[i].msg.resource = Resource
    /\ calls[i].msg.status = calls[i].status

C15_AcquireStatus ==
    \A i \in {Len(calls)} \ {0} :
        Returned(i, "acquire") =>
            LET status == calls[i].status
            IN  /\ calls[i].res = "Ok" <=> status >= 0
                /\ status < 0 => FailedWithStatus(i, "sp_getapplock")
                /\ status \in DocumentedFailures =>
                       calls[i].msg.reason = DocumentedReason(status)
                /\ calls[i].res = "Ok" <=>
                       holds[calls[i].session].n = calls[i].held[calls[i].session].n + 1

\* acquire got status -1 and failed with the protocol error "timed out"
C15_Witness ==
    /\ calls # <<>>
    /\ Returned(Len(calls), "acquire")
    /\ Last(calls).status = 0 - 1
    /\ Last(calls).res = "Protocol"
    /\ Last(calls).msg.reason = " (timed out)"

(***************************************************************************)
(* C16: try_acquire returns "acquired" for every status >= 0, "not         *)
(* acquired" without an error for status -1 and an error for every other   *)
(* negative status; the status -1 that is an error from acquire is a       *)
(* result from try_acquire, so the variant of the result tells "lock busy" *)
(* from "operation failed".                                                *)
(***************************************************************************)
C16_TryAcquireStatus ==
    \A i \in {Len(calls)} \ {0} :
        LET status == calls[i].status
        IN  /\ Returned(i, "try_acquire") =>
                /\ status >= 0 => calls[i].res = "Ok" /\ calls[i].val = "true"
                /\ status = 0 - 1 => calls[i].res = "Ok" /\ calls[i].val = "false"
                /\ status < 0 - 1 => FailedWithStatus(i, "sp_getapplock")
                /\ (calls[i].res = "Ok" /\ calls[i].val = "false") <=> status = 0 - 1
                /\ calls[i].res # "Ok" <=> status < 0 - 1
            /\ (Returned(i, "acquire") /\ status = 0 - 1) => calls[i].res = "Protocol"

\* try_acquire got status -1 and returned "not acquired"
C16_Witness ==
    /\ calls # <<>>
    /\ Returned(Len(calls), "try_acquire")
    /\ Last(calls).status = 0 - 1
    /\ Last(calls).res = "Ok"
    /\ Last(calls).val = "false"

(***************************************************************************)
(* C17: release returns "released" for status 0, "not held" without        *)
(* raising for status -999 (the lock is not held by the calling session)   *)
(* and a protocol error for every other status; releasing a lock the       *)
(* calling session never acquired, which the procedure answers with -999,  *)
(* never raises.                                                           *)
(***************************************************************************)
C17_ReleaseStatus ==
    \A i \in {Len(calls)} \ {0} :
        Returned(i, "release") =>
            LET status == calls[i].status
                s      == calls[i].session
            IN  /\ status = 0 => calls[i].res = "Ok" /\ calls[i].val = "true"
                /\ status = 0 - 999 => calls[i].res = "Ok" /\ calls[i].val = "false"
                /\ status \notin {0, 0 - 999} =>
                       FailedWithStatus(i, "sp_releaseapplock")
                /\ (calls[i].held[s].n = 0
                      /\ status \in sp_releaseapplock(calls[i].locks, s, FALSE)) =>
                       /\ calls[i].res = "Ok"
                       /\ calls[i].val = "false"
                       /\ holds = calls[i].held

\* a session that holds nothing released the lock, the procedure answered
\* -999 and release returned "not held"
C17_Witness ==
    /\ calls # <<>>
    /\ Returned(Len(calls), "release")
    /\ Last(calls).held[Last(calls).session].n = 0
    /\ Last(calls).status = 0 - 999
    /\ Last(calls).res = "Ok"
    /\ Last(calls).val = "false"

(***************************************************************************)
(* C18: a status outside the documented set (0, 1, -1, -2, -3, -999 for    *)
(* the acquire procedure; 0, -999 for the release procedure).              *)
(*   as claimed: it always produces a protocol error from acquire,         *)
(*               try_acquire and release, never success, "not acquired"    *)
(*               or "not held";                                            *)
(*   as amended: it produces a protocol error from release always and from *)
(*               acquire and try_acquire when it is negative; a positive   *)
(*               one is success from acquire and "acquired" from           *)
(*               try_acquire.                                              *)
(***************************************************************************)
AcquireDocumented == {0, 1, 0 - 1, 0 - 2, 0 - 3, 0 - 999}

ReleaseDocumented == {0, 0 - 999}

\* call i got a status its procedure does not document
Undocumented(i) ==
    \/ /\ Returned(i, "acquire") \/ Returned(i, "try_acquire")
       /\ calls[i].status \notin AcquireDocumented
    \/ /\ Returned(i, "release")
       /\ calls[i].status \notin ReleaseDocumented

\* C18 as claimed: every undocumented status is a protocol error.
C18_UndocumentedIsError ==
    \A i \in {Len(calls)} \ {0} :
        Undocumented(i) => calls[i].res = "Protocol"

\* C18 as amended: an undocumented status is a protocol error naming the
\* status, without a reason, except a positive status of the acquire
\* procedure, which is success / "acquired".
C18_UndocumentedNegativeIsError ==
    \A i \in {Len(calls)} \ {0} :
        Undocumented(i) =>
            IF calls[i].op = "release"
            THEN FailedWithStatus(i, "sp_releaseapplock")
            ELSE IF calls[i].status < 0
            THEN /\ FailedWithStatus(i, "sp_getapplock")
                 /\ calls[i].msg.reason = ""
            ELSE /\ calls[i].res = "Ok"
                 /\ calls[i].op = "try_acquire" => calls[i].val = "true"

\* release got the undocumented status -1 and failed with a protocol error
C18_Witness ==
    /\ calls # <<>>
    /\ Returned(Len(calls), "release")
    /\ Last(calls).status = 0 - 1
    /\ Last(calls).res = "Protocol"
    /\ Last(calls).msg.status = 0 - 1

(***************************************************************************)
(* C19: for every interleaving of the lock calls of two sessions on one    *)
(* resource name: while one session holds the Exclusive lock, try_acquire  *)
(* from the other session in any mode returns "not acquired" without an    *)
(* error; once the holder's release has returned "released", the other     *)
(* session's try_acquire returns "acquired"; the two sessions never both   *)
(* hold the Exclusive lock.  A session holds the lock from a successful    *)
(* acquire (or "acquired") to the release that returns "released" for the  *)
(* last of its acquisitions.                                               *)
(***************************************************************************)
Shared == "MssqlAdvisoryLockMode::Shared"

Update == "MssqlAdvisoryLockMode::Update"

Exclusive == new(Resource).mode

\* session s holds the lock in mode m, by the results of its calls
HoldsMode(h, s, m) == h[s].n > 0 /\ h[s].mode = m

\* call i is a try_acquire of session t that returned "not acquired"
NotAcquired(i) == calls[i].res = "Ok" /\ calls[i].val = "false"

\* call i is a try_acquire of session t that returned "acquired"
WasAcquired(i) == calls[i].res = "Ok" /\ calls[i].val = "true"

\* calls i-1 and i: the holder s of the Exclusive lock gave it back, then the
\* other session tried to acquire it
ReleasedThenTried(i, s) ==
    /\ i >= 2
    /\ calls[i - 1].op = "release"
    /\ calls[i - 1].session = s
    /\ HoldsMode(calls[i - 1].held, s, Exclusive)
    /\ WasAcquired(i - 1)
    /\ calls[i].held[s].n = 0
    /\ calls[i].op = "try_acquire"
    /\ calls[i].session # s

C19_ExclusiveExcludes ==
    /\ \A i \in {Len(calls)} \ {0} :
           /\ \A s \in Sessions :
                  (calls[i].op = "try_acquire" /\ calls[i].session # s
                     /\ HoldsMode(calls[i].held, s, Exclusive)) => NotAcquired(i)
           /\ \A s \in Sessions : ReleasedThenTried(i, s) => WasAcquired(i)
    /\ ~(\A s \in Sessions : HoldsMode(holds, s, Exclusive))
    /\ ~(\A s \in Sessions : applock[s].n > 0 /\ applock[s].mode = "Exclusive")

\* the holder of the Exclusive lock released it, and the other session, which
\* holds nothing, then acquired it with try_acquire in Exclusive mode
C19_Witness ==
    /\ Len(calls) >= 2
    /\ \E s \in Sessions :
           /\ ReleasedThenTried(Len(calls), s)
           /\ Last(calls).arg = Exclusive
           /\ Last(calls).held[Last(calls).session].n = 0
    /\ WasAcquired(Len(calls))

(***************************************************************************)
(* C20: try_acquire by a session returns "acquired" if and only if the     *)
(* requested mode is compatible with every mode held on the resource by    *)
(* other sessions, where Shared is compatible with Shared and Update,      *)
(* Update with Shared only and Exclusive with nothing; in particular a     *)
(* Shared request while another session holds Shared is acquired.          *)
(***************************************************************************)
\* the compatibility of a requested mode with a held one
CompatibleModes(requested, held) ==
    \/ requested = Shared /\ held \in {Shared, Update}
    \/ requested = Update /\ held = Shared

\* the modes the sessions other than t hold, by the results of their calls
ModesOfOthers(h, t) ==
    {h[s].mode : s \in {u \in Sessions \ {t} : h[u].n > 0}}

C20_AcquiredIffCompatible ==
    \A i \in {Len(calls)} \ {0} :
        calls[i].op = "try_acquire" =>
            /\ calls[i].res = "Ok"
            /\ WasAcquired(i) <=>
                   \A m \in ModesOfOthers(calls[i].held, calls[i].session) :
                       CompatibleModes(calls[i].arg, m)
            /\ WasAcquired(i) <=>
                   holds[calls[i].session].n = calls[i].held[calls[i].session].n + 1

\* a Shared request was acquired while the other session holds Shared
C20_Witness ==
    /\ calls # <<>>
    /\ Last(calls).op = "try_acquire"
    /\ Last(calls).arg = Shared
    /\ ModesOfOthers(Last(calls).held, Last(calls).session) = {Shared}
    /\ WasAcquired(Len(calls))

\* session s is open and its handle is in the caller's hands, owned by no
\* guard
HandleWithCaller(s) == guards[s].open /\ guards[s].guard = <<>>

(***************************************************************************)
(* C21: try_acquire_guard that returns without error returns exactly one   *)
(* of two things.  When the lock was obtained it returns a guard that owns *)
(* the handle it was given.  When the lock was unavailable it returns that *)
(* same handle: nothing was dropped, no guard exists for the session, and  *)
(* the session is still open with its handle in the caller's hands.        *)
(***************************************************************************)
C21_GuardOrSameConnection ==
    \A i \in {Len(calls)} \ {0} :
        calls[i].op = "try_acquire_guard" /\ calls[i].res = "Ok" =>
            LET s == calls[i].session
            IN  /\ WasAcquired(i) =>
                    /\ calls[i].guard = <<[lock |-> with_mode(Resource, calls[i].arg),
                                           conn |-> <<calls[i].given>>]>>
                    /\ calls[i].conn = <<>>
                    /\ guards[s].guard = calls[i].guard
                /\ NotAcquired(i) =>
                    /\ calls[i].conn = <<calls[i].given>>
                    /\ calls[i].guard = <<>>
                    /\ calls[i].dropped = <<>>
                    /\ HandleWithCaller(s)
                /\ WasAcquired(i) \/ NotAcquired(i)

\* session 2 holds the lock in Exclusive mode, and session 1, whose
\* try_acquire_guard on an owned handle found it unavailable, has its
\* connection back
C21_Witness ==
    /\ calls # <<>>
    /\ calls[Len(calls)].op = "try_acquire_guard"
    /\ calls[Len(calls)].session = 1
    /\ calls[Len(calls)].given = Handle(1, TRUE)
    /\ calls[Len(calls)].res = "Ok" /\ calls[Len(calls)].val = "false"
    /\ calls[Len(calls)].conn = <<Handle(1, TRUE)>>
    /\ applock[2].n > 0

(***************************************************************************)
(* C22: release_now of a guard sends exactly one command, the release of   *)
(* the guard's resource, on the session of the guard's handle, and returns *)
(* that handle successfully both when the server answers "released" and    *)
(* when it answers "not held"; in the second case, and only then, one      *)
(* warning naming the resource is logged.  Nothing is dropped: afterwards  *)
(* the session is open and its handle is with the caller, owned by no      *)
(* guard, so that further statements can be run on it.                     *)
(***************************************************************************)
NotHeldWarning(resource) ==
    [resource |-> resource,
     text |-> "advisory lock was not held by the contained connection"]

C22_ReleaseNowReturnsConnection ==
    \A i \in {Len(calls)} \ {0} :
        calls[i].op = "release_now" =>
            LET guard == calls[i].given
            IN  /\ Cmds(calls[i].out) = <<ReleaseAppLock(guard.lock.resource)>>
                /\ calls[i].out[1].ok
                /\ calls[i].session = guard.conn[1].session
                /\ calls[i].res = "Ok"
                /\ calls[i].status \in {0, 0 - 999}
                /\ calls[i].val = (IF calls[i].status = 0 THEN "true" ELSE "false")
                /\ calls[i].conn = guard.conn
                /\ calls[i].dropped = <<>>
                /\ calls[i].warn = (IF calls[i].status = 0 THEN <<>>
                                    ELSE <<NotHeldWarning(guard.lock.resource)>>)
                /\ HandleWithCaller(calls[i].session)

\* the lock taken under the guard was given back by a release through the
\* guard, so that release_now found it not held and warned
C22_Witness ==
    /\ calls # <<>>
    /\ calls[Len(calls)].op = "release_now"
    /\ calls[Len(calls)].status = 0 - 999
    /\ calls[Len(calls)].res = "Ok"
    /\ calls[Len(calls)].warn # <<>>
    /\ calls[Len(calls)].conn = calls[Len(calls)].given.conn
    /\ HandleWithCaller(calls[Len(calls)].session)

(***************************************************************************)
(* C23: leak returns the guard's handle and sends no command; the guard,   *)
(* dropped at the end of leak, logs no warning, and the lock manager is as *)
(* before.  What a session holds on the server goes down only by a release *)
(* (release, force_release, release_now) answered "released" on that       *)
(* session, or by the session being closed.                                *)
(***************************************************************************)
ReleaseCalls == {"release", "force_release", "release_now"}

C23_LeakKeepsLock ==
    \A i \in {Len(calls)} \ {0} :
        /\ calls[i].op = "leak" =>
            /\ calls[i].out = <<>>
            /\ calls[i].conn = calls[i].given.conn
            /\ calls[i].warn = <<>>
            /\ calls[i].dropped = <<>>
            /\ applock = calls[i].locks
            /\ HandleWithCaller(calls[i].session)
        /\ \A s \in Sessions :
            applock[s].n < calls[i].locks[s].n =>
                \/ /\ calls[i].op \in ReleaseCalls
                   /\ calls[i].session = s
                   /\ WasAcquired(i)
                \/ ~guards[s].open

\* the guard of a held lock was leaked: the lock is still held and the
\* handle is back with the caller
C23_Witness ==
    /\ calls # <<>>
    /\ calls[Len(calls)].op = "leak"
    /\ applock[calls[Len(calls)].session].n > 0
    /\ calls[Len(calls)].conn # <<>>
    /\ HandleWithCaller(calls[Len(calls)].session)

(***************************************************************************)
(* C24: a guard dropped with its handle still in it sends no command and   *)
(* logs one warning, which names the resource.  The drop releases nothing: *)
(* the session stays open holding what it held, unless the handle was the  *)
(* connection itself, whose drop closes the session.  While a session      *)
(* whose guard was dropped is open and holds the lock, a try_acquire (or   *)
(* try_acquire_guard) of another session in a mode incompatible with the   *)
(* held one returns "not acquired".                                        *)
(***************************************************************************)
DroppedWarning(resource) ==
    [resource |-> resource,
     text |-> "dropped without calling release_now() or leak()"]

AcquireCalls == {"acquire", "try_acquire"}

\* call i is an acquire or try_acquire whose batch reached the server
SentGetAppLock(i) ==
    /\ calls[i].op \in AcquireCalls
    /\ LockCmds(calls[i].out) # <<>>

SqlOf(i) == LockCmds(calls[i].out)[1].cmd

Pieces(text) == {text[j] : j \in 1..Len(text)}

C25_ModeIsBoundParameter ==
    \A i \in {Len(calls)} \ {0} :
        SentGetAppLock(i) =>
            /\ as_str(calls[i].arg) \in Pieces(SqlOf(i).params)
            /\ as_str(calls[i].arg) \notin Pieces(SqlOf(i).text)
            /\ i >= 2 /\ SentGetAppLock(i - 1) /\ calls[i - 1].op = calls[i].op
               => SqlOf(i).text = SqlOf(i - 1).text

(***************************************************************************)
(* C25 as the code has it: the resource name is the one bound value and is *)
(* not in the text; the mode name is written into the text, as one of the  *)
(* three names as_str gives.  Two calls of the same function send texts    *)
(* that differ at most in the mode name, and the same text when their      *)
(* modes are the same.                                                     *)
(***************************************************************************)
ModeNames == {"Shared", "Update", "Exclusive"}

C25_ResourceIsBoundParameter ==
    \A i \in {Len(calls)} \ {0} :
        SentGetAppLock(i) =>
            /\ SqlOf(i).params = <<Resource>>
            /\ Resource \notin Pieces(SqlOf(i).text)
            /\ LockModeOf(SqlOf(i)) = as_str(calls[i].arg)
            /\ LockModeOf(SqlOf(i)) \in ModeNames
            /\ i >= 2 /\ SentGetAppLock(i - 1) /\ calls[i - 1].op = calls[i].op
               => /\ Len(SqlOf(i).text) = Len(SqlOf(i - 1).text)
                  /\ \A j \in 1..Len(SqlOf(i).text) :
                        j # 2 => SqlOf(i).text[j] = SqlOf(i - 1).text[j]
                  /\ calls[i].arg = calls[i - 1].arg
                     => SqlOf(i).text = SqlOf(i - 1).text

\* two try_acquire calls in a row, one Shared and one Exclusive, whose texts
\* differ
C25_Witness ==
    /\ Len(calls) = 2
    /\ SentGetAppLock(1) /\ SentGetAppLock(2)
    /\ calls[1].op = "try_acquire" /\ calls[2].op = "try_acquire"
    /\ calls[1].arg = Shared /\ calls[2].arg = Exclusive
    /\ SqlOf(1).text # SqlOf(2).text
    /\ SqlOf(1).params = SqlOf(2).params

(***************************************************************************)
(* C26: begin_with_isolation at depth 0 sends, as its own command, one     *)
(* batch in which SET TRANSACTION ISOLATION LEVEL with the level's name    *)
(* comes before BEGIN TRANSACTION, and on success the depth is 1; a commit *)
(* that follows sends COMMIT, a rollback that follows sends ROLLBACK, and  *)
(* on success the depth is 0 again.  At depth > 0 it sends no SET or BEGIN *)
(* and leaves the depth unchanged, and                                     *)
(*   as claimed: it fails with the invalid-savepoint-statement error;      *)
(*   as amended: it fails with that error unless the deferred rollback,    *)
(*               resolved first, fails, and then with that failure.        *)
(***************************************************************************)
IsolationCall(i) == calls[i].op = "begin_with_isolation"

\* the batch of the level: SET first, the level's name, BEGIN last
IsolationBatch(cmd, level) ==
    /\ cmd.k = "EXPLICIT BEGIN"
    /\ cmd.text = <<"SET TRANSACTION ISOLATION LEVEL ",
                    MssqlIsolationLevel_as_str(level),
                    "; BEGIN TRANSACTION">>

C26_AtDepth0(i) ==
    /\ \A j \in 1..Len(calls[i].out) :
           calls[i].out[j].cmd.k \in BeginKinds =>
               IsolationBatch(calls[i].out[j].cmd, calls[i].arg)
    /\ ~ResolveFailed(calls[i].out) =>
           /\ Len(ByCall(calls[i].out)) = 1
           /\ IsolationBatch(ByCall(calls[i].out)[1].cmd, calls[i].arg)
    /\ calls[i].res = "Ok" => calls[i].depthAfter = 1

\* call i follows a begin_with_isolation that succeeded at depth 0
FollowsIsolationBegin(i) ==
    /\ i >= 2
    /\ IsolationCall(i - 1)
    /\ calls[i - 1].depth = 0
    /\ calls[i - 1].res = "Ok"

C26_Following(i) ==
    /\ calls[i].op = "commit" =>
           /\ Cmds(calls[i].out) = <<COMMIT>>
           /\ calls[i].res = "Ok" => calls[i].depthAfter = 0
    /\ calls[i].op = "rollback" =>
           /\ Cmds(calls[i].out) = <<ROLLBACK>>
           /\ calls[i].res = "Ok" => calls[i].depthAfter = 0

C26_IsolationRejectedWhenNested ==
    \A i \in {Len(calls)} \ {0} :
        /\ IsolationCall(i) /\ calls[i].depth = 0 => C26_AtDepth0(i)
        /\ FollowsIsolationBegin(i) => C26_Following(i)
        /\ IsolationCall(i) /\ calls[i].depth > 0 =>
               /\ calls[i].res = "InvalidSavePointStatement"
               /\ NoBeginSent(calls[i].out)
               /\ calls[i].depthAfter = calls[i].depth

C26_IsolationRejectedAfterResolve ==
    \A i \in {Len(calls)} \ {0} :
        /\ IsolationCall(i) /\ calls[i].depth = 0 => C26_AtDepth0(i)
        /\ FollowsIsolationBegin(i) => C26_Following(i)
        /\ IsolationCall(i) /\ calls[i].depth > 0 =>
               /\ ~ResolveFailed(calls[i].out) =>
                      calls[i].res = "InvalidSavePointStatement"
               /\ ResolveFailed(calls[i].out) =>
                      calls[i].res \in {"Database", "Io", "Protocol"}
               /\ NoBeginSent(calls[i].out)
               /\ calls[i].depthAfter = calls[i].depth

\* begin_with_isolation(Serializable) at depth 0 and the commit after it,
\* which sent COMMIT and left depth 0
C26_Witness ==
    /\ Len(calls) = 2
    /\ FollowsIsolationBegin(2)
    /\ calls[1].arg = "Serializable"
    /\ calls[2].op = "commit"
    /\ calls[2].res = "Ok"
    /\ Cmds(calls[2].out) = <<COMMIT>>
    /\ transaction_depth = 0

(***************************************************************************)
(* C27: an acquire never returns "timed out": every acquire that returns   *)
(* returns success with a non-negative status.  An acquire sent while      *)
(* another session holds an incompatible lock stays sent, its session      *)
(* waiting, and stops waiting only by being granted the lock, at a moment  *)
(* when the lock manager can grant it.  Once the holder has released and   *)
(* the lock can be granted, the acquire eventually returns success and     *)
(* its session holds the lock.                                             *)
(***************************************************************************)
Waiting(s) == guards[s].waiting # <<>>

\* the last call is the acquire of s, returned with success
AcquireReturned(s) ==
    /\ ~Waiting(s)
    /\ calls # <<>>
    /\ calls[Len(calls)].op = "acquire"
    /\ calls[Len(calls)].session = s
    /\ calls[Len(calls)].res = "Ok"
    /\ applock[s].n > 0

ErrorKinds ==
    {"UniqueViolation", "ForeignKeyViolation", "NotNullViolation",
     "CheckViolation", "Other"}

C28_KindOfNumber ==
    \A i \in {Len(calls)} \ {0} :
        calls[i].op = "kind" =>
            LET number == calls[i].arg
                k      == calls[i].val
            IN  /\ k \in ErrorKinds
                /\ k = "UniqueViolation" <=> number \in {2601, 2627}
                /\ k = "ForeignKeyViolation" <=> number = 547
                /\ k = "NotNullViolation" <=> number = 515
                /\ k = "CheckViolation" <=> number = 2628
                /\ k = "Other" <=> number \notin {2601, 2627, 547, 515, 2628}

\* the kind of error 2627 was asked for and is unique violation
C28_Witness ==
    /\ calls # <<>>
    /\ calls[Len(calls)].op = "kind"
    /\ calls[Len(calls)].arg = 2627
    /\ calls[Len(calls)].val = "UniqueViolation"

(***************************************************************************)
(* C29: start_rollback sends no command and returns at once.  Called at    *)
(* depth D > 0 it leaves pending_rollback true and the depth D - 1, which  *)
(* is what get_transaction_depth reads from then on, no rollback having    *)
(* reached the server; called at depth 0 it leaves the depth 0 and         *)
(* pending_rollback as it was.                                             *)
(***************************************************************************)
C29_StartRollbackIsLocal ==
    \A i \in {Len(calls)} \ {0} :
        calls[i].op = "start_rollback" =>
            /\ calls[i].out = <<>>
            /\ calls[i].res = "Ok"
            /\ calls[i].depth > 0 =>
                   /\ calls[i].pendingAfter
                   /\ pending_rollback
                   /\ calls[i].depthAfter = calls[i].depth - 1
                   /\ get_transaction_depth = calls[i].depth - 1
            /\ calls[i].depth = 0 =>
                   /\ calls[i].depthAfter = 0
                   /\ get_transaction_depth = 0
                   /\ calls[i].pendingAfter = calls[i].pending
                   /\ pending_rollback = calls[i].pending

\* the handle of the one open transaction was dropped: the depth reads 0
\* while the transaction is still open on the server
C29_Witness ==
    /\ calls # <<>>
    /\ calls[Len(calls)].op = "start_rollback"
    /\ calls[Len(calls)].depth = 1
    /\ ~calls[Len(calls)].pending
    /\ get_transaction_depth = 0
    /\ pending_rollback
    /\ server.tc = 1

(***************************************************************************)
(* C30: a call made with pending_rollback false sends no deferred          *)
(* rollback.  A call made with the flag true that runs the resolver        *)
(* (begin, execute, ping, bulk_insert) sends exactly one deferred          *)
(* rollback, first in its batch, the one of the depth the call started at; *)
(* the flag is false afterwards whether or not that rollback succeeded,    *)
(* and when it failed nothing else was sent and the depth is as it was.    *)
(* No call sends two deferred rollbacks: the resolver that runs again      *)
(* inside begin's own command finds the flag false and sends nothing.      *)
(***************************************************************************)
AlwaysResolve == {"begin", "execute", "ping", "bulk_insert"}

C30_OneRollbackPerArming ==
    \A i \in {Len(calls)} \ {0} :
        LET out      == calls[i].out
            resolved == ByResolve(out)
        IN  /\ Len(resolved) <= 1
            /\ ~calls[i].pending => resolved = <<>>
            /\ calls[i].pending /\ calls[i].op \in AlwaysResolve =>
                   Len(resolved) = 1
            /\ resolved # <<>> =>
                   /\ calls[i].pending
                   /\ out[1].by = "resolve"
                   /\ out[1].cmd = RollbackFor(calls[i].depth)
                   /\ ~calls[i].pendingAfter
                   /\ ~pending_rollback
                   /\ ~out[1].ok =>
                          /\ Len(out) = 1
                          /\ calls[i].res # "Ok"
                          /\ calls[i].depthAfter = calls[i].depth

\* a begin made with the flag true: one deferred rollback, then the begin
\* command, and the flag is false
C30_Witness ==
    /\ calls # <<>>
    /\ calls[Len(calls)].op = "begin"
    /\ calls[Len(calls)].pending
    /\ calls[Len(calls)].res = "Ok"
    /\ Len(calls[Len(calls)].out) = 2
    /\ Len(ByResolve(calls[Len(calls)].out)) = 1
    /\ ~pending_rollback

(***************************************************************************)
(* C31: at every depth D >= 1 with no rollback pending, dropping the       *)
(* handle and resolving the deferred rollback sends the same command, and  *)
(* leaves the same depth D - 1, as rollback() does; for D >= 2 the command *)
(* names the savepoint that the begin at depth D - 1 created.  `os` is the *)
(* set of outcomes the rollback command may have.                          *)
(***************************************************************************)
\* the handle is dropped and the next command resolves the rollback
abandon(c, o) == resolve_pending_rollback(start_rollback(c), o)

AbandonIsRollback(os) ==
    \A o \in os :
        LET D == Conn.depth
            a == abandon(Conn, o)
            b == rollback(Conn, o, o)
        IN  D >= 1 /\ ~Conn.pending =>
                /\ Len(a.out) = 1
                /\ Cmds(a.out) = Cmds(b.out)
                /\ a.depth = D - 1
                /\ b.depth = D - 1
                /\ D >= 2 =>
                       /\ a.out[1].cmd = RollbackTransaction(D - 1)
                       /\ Cmds(begin([Conn EXCEPT !.depth = D - 1], <<>>,
                                     "Ok", "Ok").out)
                            = <<SaveTransaction(D - 1)>>

C31_AbandonIsRollback == AbandonIsRollback(Outcomes)

(***************************************************************************)
(* C32: in runs of default begin, commit, rollback, dropped handles and    *)
(* statements in which no round trip fails, the server accepts every       *)
(* command of every call: BEGIN TRANSACTION arrives only when no           *)
(* transaction is open on the server, COMMIT and ROLLBACK only while one   *)
(* is open, and ROLLBACK TRANSACTION names a savepoint that exists.        *)
(* Whenever pending_rollback is false, a transaction is open on the server *)
(* if and only if the depth is > 0.                                        *)
(***************************************************************************)
C32_CommandsValidForServer ==
    /\ \A i \in {Len(calls)} \ {0} :
           \A j \in 1..Len(calls[i].out) :
               LET e == calls[i].out[j]
               IN  /\ e.ok
                   /\ e.cmd.k = "BEGIN TRANSACTION" => e.tc = 0
                   /\ e.cmd.k \in {"COMMIT", "ROLLBACK"} => e.tc > 0
                   /\ e.cmd.k \in {"SAVE TRANSACTION", "ROLLBACK TRANSACTION"}
                      => e.tc = 1
    /\ ~pending_rollback => (server.tc > 0 <=> transaction_depth > 0)
    /\ server.tc \in {0, 1}

\* two levels were opened, the inner handle was dropped, and the commit of
\* the outer level sent the deferred ROLLBACK TRANSACTION and then COMMIT
C32_Witness ==
    /\ calls # <<>>
    /\ Last(calls).op = "commit"
    /\ Last(calls).pending
    /\ Cmds(Last(calls).out) = <<RollbackTransaction(1), COMMIT>>
    /\ server.tc = 0
    /\ transaction_depth = 0

(***************************************************************************)
(* C33: when the deferred rollback of a call fails, the call leaves        *)
(* pending_rollback false and the depth at the value the drop gave it, and *)
(* the abandoned transaction is still open on the server.  The call that   *)
(* follows sends no deferred rollback: its first command is its own, and   *)
(* it arrives while that transaction is open.                              *)
(***************************************************************************)
C33_FailedRollbackIsNotRetried ==
    \A i \in {Len(calls)} \ {0} :
        /\ ResolveFailed(calls[i].out) =>
               /\ ~calls[i].pendingAfter
               /\ ~pending_rollback
               /\ calls[i].depthAfter = calls[i].depth
               /\ transaction_depth = calls[i].depth
               /\ server.tc > 0
        /\ i >= 2 /\ ResolveFailed(calls[i - 1].out) =>
               /\ ~calls[i].pending
               /\ ByResolve(calls[i].out) = <<>>
               /\ calls[i].out # <<>> =>
                      /\ calls[i].out[1].by = "call"
                      /\ calls[i].out[1].tc > 0

\* the deferred ROLLBACK of a begin failed; the begin that followed sent
\* BEGIN TRANSACTION, with no rollback before it, into the transaction
\* that is still open
C33_Witness ==
    /\ Len(calls) = 2
    /\ ResolveFailed(calls[1].out)
    /\ calls[1].depth = 0
    /\ calls[2].op = "begin"
    /\ Cmds(calls[2].out) = <<BEGIN_TRANSACTION>>
    /\ calls[2].out[1].tc = 1
    /\ calls[2].res = "Ok"
    /\ server.tc = 2

(***************************************************************************)
(* C34: no lock call changes the transaction depth.  A lock call made with *)
(* pending_rollback true sends the deferred rollback first and leaves the  *)
(* flag false; the stored-procedure batch follows it when the rollback     *)
(* succeeded and is not sent when it failed.  When the batch was sent, the *)
(* result of the call is the one the same status gives on a connection     *)
(* with nothing pending.                                                   *)
(***************************************************************************)
LockCalls == {"acquire", "try_acquire", "release"}

\* the result of the lock function `op` for `status` on a connection with
\* nothing pending
FromStatus(op, lock, status) ==
    LET c == [ConnOf(2) EXCEPT !.server = ServerInit]
    IN  CASE op = "acquire"     -> acquire(c, lock, status, "Ok", "Ok")
          [] op = "try_acquire" -> try_acquire(c, lock, status, "Ok", "Ok")
          [] op = "release"     -> release(c, lock, status, "Ok", "Ok")

C34_LockCallsResolveFirst ==
    \A i \in {Len(calls)} \ {0} :
        calls[i].op \in LockCalls =>
            LET out == calls[i].out
            IN  /\ calls[i].depthAfter = calls[i].depth
                /\ ~calls[i].pendingAfter
                /\ calls[i].pending =>
                       /\ out[1].by = "resolve"
                       /\ out[1].cmd = RollbackFor(calls[i].depth)
                       /\ out[1].ok => /\ Len(out) = 2
                                       /\ LockCmds(out) = <<out[2]>>
                       /\ ~out[1].ok => /\ Len(out) = 1
                                        /\ calls[i].res # "Ok"
                /\ LockCmds(out) # <<>> =>
                       LET f == FromStatus(calls[i].op,
                                           with_mode(Resource, calls[i].arg),
                                           calls[i].status)
                       IN  /\ calls[i].res = f.res
                           /\ calls[i].val = f.val
                           /\ calls[i].msg = f.msg

\* try_acquire on a connection whose handle was dropped at depth 2: the
\* deferred ROLLBACK TRANSACTION went first, the lock was acquired and the
\* depth is still 1
C34_Witness ==
    /\ calls # <<>>
    /\ Last(calls).op = "try_acquire"
    /\ Last(calls).pending
    /\ Last(calls).depth = 1
    /\ Len(Last(calls).out) = 2
    /\ Last(calls).out[1].cmd = RollbackTransaction(1)
    /\ Last(calls).val = "true"
    /\ transaction_depth = 1
    /\ ~pending_rollback

(***************************************************************************)
(* C35  Migrations run in a transaction.                                   *)
(***************************************************************************)
\* the calls of the history that are apply or revert with no_tx = false
\* and got past their begin
TransactionalMigrations ==
    {i \in 1..Len(calls) :
        /\ calls[i].op \in {"apply", "revert"}
        /\ calls[i].arg = FALSE
        /\ \E j \in 1..Len(calls[i].out) : calls[i].out[j].cmd = MigrationSql}

MigrationStatements == {MigrationSql, InsertMigration, DeleteMigration}

\* the script or the bookkeeping statement of the call failed
StatementFailed(out) ==
    \E j \in 1..Len(out) : out[j].cmd \in MigrationStatements /\ ~out[j].ok

\* the script and the bookkeeping statement of the call both succeeded
StatementsSucceeded(out) ==
    Len(SelectSeq(out, LAMBDA e : e.cmd \in MigrationStatements /\ e.ok)) = 2

\* C35: apply and revert with no_tx = false: when the script or the
\* bookkeeping statement fails, no COMMIT is sent, the depth is back at its
\* value from before the call, and the first command of the next call that
\* sends anything is the rollback of the migration's transaction; when both
\* statements succeed exactly one COMMIT is sent and the depth is back at
\* its value from before the call.
C35_FailedMigrationRollsBack ==
    \A i \in TransactionalMigrations :
        LET c == calls[i]
        IN  /\ StatementFailed(c.out) =>
                /\ CountKind(c.out, "COMMIT") = 0
                /\ c.depthAfter = c.depth
                /\ i < Len(calls) /\ calls[i + 1].out # <<>> =>
                      /\ calls[i + 1].out[1].by = "resolve"
                      /\ calls[i + 1].out[1].cmd = RollbackFor(c.depth)
            /\ StatementsSucceeded(c.out) =>
                /\ CountKind(c.out, "COMMIT") = 1
                /\ c.depthAfter = c.depth

(***************************************************************************)
(* C36: acquire_guard and try_acquire_guard hand out a guard only when     *)
(* their batch reached the server and the procedure returned a status >= 0 *)
(* for it: the batch names the guard's resource and was sent on the        *)
(* session of the handle the guard owns.  For a negative status            *)
(* acquire_guard returns an error, and try_acquire_guard returns an error  *)
(* or the handle it was given; neither returns a guard.                    *)
(***************************************************************************)
GuardedCalls == {"acquire_guard", "try_acquire_guard"}

C36_GuardOnlyAfterGrant ==
    \A i \in {Len(calls)} \ {0} :
        calls[i].op \in GuardedCalls =>
            LET sent == LockCmds(calls[i].out)
            IN  /\ calls[i].guard # <<>> =>
                    /\ Len(sent) = 1
                    /\ sent[1].cmd.k = "sp_getapplock"
                    /\ sent[1].cmd.params = <<calls[i].guard[1].lock.resource>>
                    /\ calls[i].status >= 0
                    /\ calls[i].guard[1].conn = <<calls[i].given>>
                    /\ calls[i].given.session = calls[i].session
                    /\ applock[calls[i].session].n > 0
                /\ sent # <<>> /\ calls[i].status < 0 =>
                    /\ calls[i].guard = <<>>
                    /\ guards[calls[i].session].guard = <<>>
                    /\ calls[i].op = "acquire_guard" => calls[i].res # "Ok"
                    /\ calls[i].op = "try_acquire_guard" =>
                          \/ calls[i].res # "Ok"
                          \/ calls[i].conn = <<calls[i].given>>

\* acquire_guard whose batch was answered with -3 (deadlock victim) while
\* the lock could have been granted: an error, and no guard
C36_Witness ==
    /\ calls # <<>>
    /\ Last(calls).op = "acquire_guard"
    /\ LockCmds(Last(calls).out) # <<>>
    /\ Last(calls).status = 0 - 3
    /\ Last(calls).res = "Protocol"
    /\ Last(calls).guard = <<>>
    /\ guards[Last(calls).session].guard = <<>>

(***************************************************************************)
(* C37: release_now has taken the handle out of the guard when it sends    *)
(* the release: when the release fails (the round trip, or a status that   *)
(* is neither "released" nor "not held") the handle is not returned but    *)
(* dropped with the call, and the emptied guard logs nothing.  No call of  *)
(* release_now or leak logs the "dropped without ..." warning, whatever    *)
(* its outcome; the warning is logged by the drop of a guard that still    *)
(* has its handle, once, and the guard is gone afterwards.                 *)
(***************************************************************************)
DroppedWarnings(warn) ==
    SelectSeq(warn, LAMBDA w : w.text = "dropped without calling release_now() or leak()")

GuardOps == {"acquire_guard", "try_acquire_guard", "release_now", "leak", "drop"}

C37_ReleaseNowTakesConnection ==
    \A i \in {Len(calls)} \ {0} :
        calls[i].op \in GuardOps =>
            LET s == calls[i].session
            IN  /\ calls[i].op = "release_now" /\ calls[i].res # "Ok" =>
                    /\ calls[i].conn = <<>>
                    /\ calls[i].dropped = calls[i].given.conn
                    /\ calls[i].warn = <<>>
                    /\ guards[s].open = ~calls[i].given.conn[1].owned
                /\ calls[i].op \in {"release_now", "leak"} =>
                    /\ DroppedWarnings(calls[i].warn) = <<>>
                    /\ guards[s].guard = <<>>
                /\ Len(DroppedWarnings(calls[i].warn)) <= 1
                /\ DroppedWarnings(calls[i].warn) # <<>> =>
                    /\ calls[i].op = "drop"
                    /\ calls[i].given.conn # <<>>
                    /\ guards[s].guard = <<>>

\* release_now of a guard that owns its connection, the release answered
\* with a status that is neither 0 nor -999: an error, the connection gone
\* with it and the session closed, and no warning
C37_Witness ==
    /\ calls # <<>>
    /\ Last(calls).op = "release_now"
    /\ Last(calls).given.conn[1].owned
    /\ LockCmds(Last(calls).out) # <<>>
    /\ Last(calls).status = 0 - 1
    /\ Last(calls).res = "Protocol"
    /\ Last(calls).conn = <<>>
    /\ Last(calls).warn = <<>>
    /\ ~guards[Last(calls).session].open

(***************************************************************************)
(* C38 as claimed: every acquire, try_acquire and release call sends       *)
(* exactly one batch of its procedure, with @LockOwner = 'Session' in the  *)
(* text, @LockTimeout = -1 for acquire and 0 for try_acquire, and the      *)
(* resource name as the only bound value and nowhere in the text; when     *)
(* the batch was answered the result of the call is the one its status     *)
(* gives.                                                                  *)
(***************************************************************************)
\* the lock batches of a call, answered or not
LockBatches(out) ==
    SelectSeq(out, LAMBDA e : e.cmd.k \in {"sp_getapplock", "sp_releaseapplock"})

\* the batch is the one `op` builds for the lock
BatchOf(op, lock, cmd) ==
    /\ cmd.params = <<lock.resource>>
    /\ \A j \in 1..Len(cmd.text) : cmd.text[j] # lock.resource
    /\ op \in {"acquire", "try_acquire"} =>
          /\ cmd.k = "sp_getapplock"
          /\ Len(cmd.text) = 5
          /\ LockModeOf(cmd) = as_str(lock.mode)
          /\ cmd.text[3] = "', @LockOwner = 'Session', @LockTimeout = "
          /\ cmd.text[4] = (IF op = "acquire" THEN "-1" ELSE "0")
    /\ op = "release" =>
          /\ cmd.k = "sp_releaseapplock"
          /\ cmd.text = <<"DECLARE @r INT; EXEC @r = sp_releaseapplock @Resource = @p1, @LockOwner = 'Session'; SELECT @r;">>

\* the result of the call is the one the status gives
DecidedByStatus(i) ==
    LET f == FromStatus(calls[i].op, with_mode(Resource, calls[i].arg),
                        calls[i].status)
    IN  /\ calls[i].res = f.res
        /\ calls[i].val = f.val
        /\ calls[i].msg = f.msg

C38_OneBatchPerCall ==
    \A i \in {Len(calls)} \ {0} :
        calls[i].op \in LockCalls =>
            LET sent == LockBatches(calls[i].out)
            IN  /\ Len(sent) = 1
                /\ BatchOf(calls[i].op, with_mode(Resource, calls[i].arg),
                           sent[1].cmd)
                /\ sent[1].ok => DecidedByStatus(i)

(***************************************************************************)
(* C38: a lock call whose deferred rollback failed sends no batch and      *)
(* returns that failure; every other acquire, try_acquire and release call *)
(* sends exactly one batch of its procedure, with @LockOwner = 'Session'   *)
(* in the text, @LockTimeout = -1 for acquire and 0 for try_acquire, and   *)
(* the resource name as the only bound value and nowhere in the text;      *)
(* when the batch was answered the result of the call is the one its       *)
(* status gives.                                                           *)
(***************************************************************************)
C38_OneBatchUnlessResolveFailed ==
    \A i \in {Len(calls)} \ {0} :
        calls[i].op \in LockCalls =>
            LET sent == LockBatches(calls[i].out)
            IN  /\ ResolveFailed(calls[i].out) =>
                    /\ sent = <<>>
                    /\ calls[i].res # "Ok"
                /\ ~ResolveFailed(calls[i].out) =>
                    /\ Len(sent) = 1
                    /\ BatchOf(calls[i].op, with_mode(Resource, calls[i].arg),
                               sent[1].cmd)
                    /\ sent[1].ok => DecidedByStatus(i)

\* try_acquire in Update mode answered with -1: one batch with timeout 0
\* and the resource bound, and the result "not acquired"
C38_Witness ==
    /\ calls # <<>>
    /\ Last(calls).op = "try_acquire"
    /\ Last(calls).arg = "MssqlAdvisoryLockMode::Update"
    /\ Len(LockBatches(Last(calls).out)) = 1
    /\ LockBatches(Last(calls).out)[1].ok
    /\ LockBatches(Last(calls).out)[1].cmd.text[4] = "0"
    /\ LockBatches(Last(calls).out)[1].cmd.params = <<Resource>>
    /\ Last(calls).status = 0 - 1
    /\ Last(calls).res = "Ok"
    /\ Last(calls).val = "false"

(***************************************************************************)
(* C39: encoding an i8 succeeds exactly for 0..127 and then pushes one     *)
(* argument, the U8 of the same number, after the ones already in the      *)
(* buffer; for a negative i8 it fails and the buffer is as before.         *)
(* Decoding a U8 into i8 succeeds exactly for 0..127, giving the same      *)
(* number; an i8 of 0..127 that is encoded, given back by the server and   *)
(* decoded is the i8 that was encoded.                                     *)
(***************************************************************************)
C39_I8IsZeroTo127 ==
    \A i \in {Len(calls)} \ {0} :
        LET c == calls[i]
        IN  /\ c.op = "encode" =>
                /\ c.res = "Ok" <=> c.arg.self \in 0..127
                /\ c.arg.self \in 0..127 =>
                      c.val = Append(c.arg.buf, Value("U8", c.arg.self))
                /\ c.arg.self < 0 => c.res = "Err" /\ c.val = c.arg.buf
            /\ c.op = "decode" /\ c.arg.t = "U8" =>
                /\ c.res = "Ok" <=> c.arg.v \in 0..127
                /\ c.res = "Ok" => c.val = <<c.arg.v>>
            /\ c.op = "round_trip" /\ c.arg.self \in 0..127 =>
                /\ c.res = "Ok"
                /\ c.val = <<c.arg.self>>

\* -128 was refused by the encoder, with one argument already in the buffer
C39_Witness ==
    /\ calls # <<>>
    /\ Last(calls).op = "encode"
    /\ Last(calls).arg.self = 0 - 128
    /\ Last(calls).arg.buf # <<>>
    /\ Last(calls).res = "Err"
    /\ Last(calls).val = Last(calls).arg.buf

====
